---- MODULE Spec2Model ----
(***************************************************************************)
(* The tool-use orchestration engine of web_agent: ToolUseAgent.run with   *)
(* its streaming aggregator, tool dispatch and reflection gate             *)
(* (src/web_agent/agent.py) and the tool registry (src/lib/tools.py).      *)
(*                                                                         *)
(* One run is single threaded, so every step of run() is one action and    *)
(* pc is the position of the run in its code.  The gateway, the tools'     *)
(* outputs and the reflection judgment are the environment: their values   *)
(* are drawn from the small sets below.                                    *)
(*                                                                         *)
(* Text is a sequence of string atoms; concatenation of text is \o.  An    *)
(* Optional[str] that is a name or an id is a string with None for None;   *)
(* an optional text is the empty sequence when it is None or "" (the code  *)
(* tests these for truth only).                                            *)
(***************************************************************************)
EXTENDS Integers, Sequences, FiniteSets, TLC

(* ------------------------------ bounds --------------------------------- *)

\* largest max_turns a run is configured with
MaxTurns == 3
\* largest max_reflection_rounds a run is configured with
MaxRounds == 2
\* chunks the gateway delivers during one run, over all its turns
MaxChunks == 3
\* tokens of the argument text streamed for one tool call
MaxArgTokens == 5
\* tokens of prose before, and after, the judgment proper in a judgment text
MaxProse == 1

(* ----------------------------- constants ------------------------------- *)

None == "None"

\* execution.content[:500]
PREVIEW_LIMIT == 500

Min(a, b) == IF a < b THEN a ELSE b

\* a mapping (dict) is a set of <<key, value>> pairs with distinct keys
EmptyDict == {}

Last(seq) == seq[Len(seq)]

HasKey(dict, key) == \E kv \in dict : kv[1] = key

Get(dict, key, default) ==
    IF HasKey(dict, key) THEN (CHOOSE kv \in dict : kv[1] = key)[2] ELSE default

(* ------------------------------ records -------------------------------- *)

ToolCallRecord(name, arguments, output_preview) ==
    [name |-> name, arguments |-> arguments, output_preview |-> output_preview]

ReflectionRecord(requires_more_context, reason, follow_up_instruction, suggested_query) ==
    [requires_more_context |-> requires_more_context,
     reason |-> reason,
     follow_up_instruction |-> follow_up_instruction,
     suggested_query |-> suggested_query]

AgentResult(answer, tool_calls, reflections) ==
    [answer |-> answer, refined_query |-> <<"QUESTION">>,
     tool_calls |-> tool_calls, reflections |-> reflections]

build_agent_metadata(tool_calls, reflections) ==
    [refined_query |-> <<"QUESTION">>,
     tool_calls |-> tool_calls,
     reflections |-> reflections]

(* ------------------------------- events -------------------------------- *)

RunStartEvent == [type |-> "run", status |-> "start"]

AnswerStreamEvent(text) == [type |-> "answer", status |-> "stream", text |-> text]

ToolCallStartEvent(call_id, name, arguments) ==
    [type |-> "tool_call", status |-> "start", call_id |-> call_id,
     name |-> name, arguments |-> arguments]

ToolCallFinishEvent(call_id, name, output) ==
    [type |-> "tool_call", status |-> "finish", call_id |-> call_id,
     name |-> name, output |-> output]

ReflectionEvent(reflection) ==
    [type |-> "reflection", status |-> None,
     requires_more_context |-> reflection.requires_more_context,
     reason |-> reflection.reason,
     follow_up_instruction |-> reflection.follow_up_instruction,
     suggested_query |-> reflection.suggested_query]

AnswerFinalEvent(text, metadata) ==
    [type |-> "answer", status |-> "final", text |-> text, metadata |-> metadata]

(* ------------------------------ messages ------------------------------- *)

SystemMessage(content) == [role |-> "system", content |-> content]

UserMessage(content) == [role |-> "user", content |-> content]

\* the mutant of ToolMessage: the message is linked by the tool's name
ToolMessageLinkedByName(tool_call_id, name, content) ==
    [role |-> "tool", tool_call_id |-> name, name |-> name, content |-> content]

ToolMessage(tool_call_id, name, content) ==
    [role |-> "tool", tool_call_id |-> tool_call_id, name |-> name, content |-> content]

HasToolCalls(message) == "tool_calls" \in DOMAIN message

InitialMessages ==
    << SystemMessage(<<"SYSTEM_PROMPT">>), UserMessage(<<"QUESTION">>) >>

(* ----------------------- streaming aggregator -------------------------- *)

\* The text values one content piece of a delta contributes, in order: each
\* is appended to assistant_content and emitted as one answer/stream event.
\* A piece is [kind |-> "none"], [kind |-> "str", text |-> t] or
\* [kind |-> "list", parts |-> <<part, ...>>]; a part is
\* [is_dict, type, text], text being part.get("text", "") of a mapping and
\* str(part) of anything else.
RECURSIVE PartTexts(_)
PartTexts(parts) ==
    IF parts = <<>> THEN <<>>
    ELSE LET text_value == Head(parts).text
         IN  (IF text_value = <<>> THEN <<>> ELSE <<text_value>>)
             \o PartTexts(Tail(parts))

ContentTexts(content_piece) ==
    CASE content_piece.kind = "none" -> <<>>
      [] content_piece.kind = "str" ->
            IF content_piece.text = <<>> THEN <<>> ELSE <<content_piece.text>>
      [] content_piece.kind = "list" -> PartTexts(content_piece.parts)

RECURSIVE Concat(_)
Concat(texts) ==
    IF texts = <<>> THEN <<>> ELSE Head(texts) \o Concat(Tail(texts))

RECURSIVE StreamEvents(_)
StreamEvents(texts) ==
    IF texts = <<>> THEN <<>>
    ELSE <<AnswerStreamEvent(Head(texts))>> \o StreamEvents(Tail(texts))

\* f"tool_call_{index}"
SyntheticId(index) == "tool_call_" \o ToString(index)

\* tool_call_states is a dict keyed by index: here the sequence of its values
\* in insertion order, each carrying its key.
StateAt(states, index) ==
    IF \E k \in 1..Len(states) : states[k].index = index
    THEN CHOOSE k \in 1..Len(states) : states[k].index = index
    ELSE 0

\* tool_call_states.setdefault(index, {...}): the states with an entry for
\* the delta's index, a new entry being inserted last.
SetDefault(states, tool_delta) ==
    IF StateAt(states, tool_delta.index) # 0 THEN states
    ELSE Append(states,
                [index |-> tool_delta.index,
                 id |-> IF tool_delta.id # None THEN tool_delta.id
                        ELSE SyntheticId(tool_delta.index),
                 name |-> None,
                 arguments |-> <<>>,
                 emitted_start |-> FALSE])

\* the mutant of ApplyToolDelta: every fragment that supplies a name emits
\* a start event
ApplyToolDeltaStartPerName(states, tool_delta) ==
    LET with_entry == SetDefault(states, tool_delta)
        k == StateAt(with_entry, tool_delta.index)
        state == with_entry[k]
        folded == [state EXCEPT
                     !.id = IF tool_delta.id # None THEN tool_delta.id ELSE @,
                     !.name = IF tool_delta.name # None THEN tool_delta.name ELSE @,
                     !.arguments = @ \o tool_delta.arguments]
        starts == tool_delta.name # None
    IN  [states |-> [with_entry EXCEPT
                       ![k] = [folded EXCEPT !.emitted_start = @ \/ starts]],
         events |-> IF starts
                    THEN <<ToolCallStartEvent(folded.id, folded.name, EmptyDict)>>
                    ELSE <<>>]

\* the mutant of ApplyToolDelta: the first name supplied for an index is
\* kept
ApplyToolDeltaFirstName(states, tool_delta) ==
    LET with_entry == SetDefault(states, tool_delta)
        k == StateAt(with_entry, tool_delta.index)
        state == with_entry[k]
        folded == [state EXCEPT
                     !.id = IF tool_delta.id # None THEN tool_delta.id ELSE @,
                     !.name = IF tool_delta.name # None /\ @ = None
                              THEN tool_delta.name ELSE @,
                     !.arguments = @ \o tool_delta.arguments]
        starts == ~folded.emitted_start /\ folded.name # None
    IN  [states |-> [with_entry EXCEPT
                       ![k] = [folded EXCEPT !.emitted_start = @ \/ starts]],
         events |-> IF starts
                    THEN <<ToolCallStartEvent(folded.id, folded.name, EmptyDict)>>
                    ELSE <<>>]

\* One tool-call fragment folded into the states: [states, events], events
\* being the tool_call/start event it emits, if any.
\* A fragment is [index, id, name, arguments]; id and name are None when the
\* fragment does not supply them, arguments is <<>> when it supplies none.
ApplyToolDelta(states, tool_delta) ==
    LET with_entry == SetDefault(states, tool_delta)
        k == StateAt(with_entry, tool_delta.index)
        state == with_entry[k]
        folded == [state EXCEPT
                     !.id = IF tool_delta.id # None THEN tool_delta.id ELSE @,
                     !.name = IF tool_delta.name # None THEN tool_delta.name ELSE @,
                     !.arguments = @ \o tool_delta.arguments]
        starts == ~folded.emitted_start /\ folded.name # None
    IN  [states |-> [with_entry EXCEPT
                       ![k] = [folded EXCEPT !.emitted_start = @ \/ starts]],
         events |-> IF starts
                    THEN <<ToolCallStartEvent(folded.id, folded.name, EmptyDict)>>
                    ELSE <<>>]

RECURSIVE ApplyToolDeltas(_, _)
ApplyToolDeltas(states, tool_call_deltas) ==
    IF tool_call_deltas = <<>> THEN [states |-> states, events |-> <<>>]
    ELSE LET first == ApplyToolDelta(states, Head(tool_call_deltas))
             rest == ApplyToolDeltas(first.states, Tail(tool_call_deltas))
         IN  [states |-> rest.states, events |-> first.events \o rest.events]

\* choice.finish_reason in {"stop", "tool_calls"}
StopsStream(finish_reason) == finish_reason \in {"stop", "tool_calls"}

\* sorted(tool_call_states.keys())
RECURSIVE SortedIndices(_)
SortedIndices(indices) ==
    IF indices = {} THEN <<>>
    ELSE LET least == CHOOSE i \in indices : \A j \in indices : i <= j
         IN  <<least>> \o SortedIndices(indices \ {least})

\* the mutant of SortedToolStates: the states in the order their indices
\* first arrived
SortedToolStatesByArrival(states) == states

\* [tool_call_states[index] for index in sorted(tool_call_states.keys())]
SortedToolStates(states) ==
    LET order == SortedIndices({states[k].index : k \in 1..Len(states)})
    IN  [n \in 1..Len(order) |-> states[StateAt(states, order[n])]]

\* the tool_calls of the assistant message, one per finalized state
MessageToolCalls(sorted_states) ==
    [n \in 1..Len(sorted_states) |->
        [id |-> sorted_states[n].id,
         type |-> "function",
         function |->
            [name |-> IF sorted_states[n].name = None THEN ""
                      ELSE sorted_states[n].name,
             arguments |-> IF sorted_states[n].arguments = <<>> THEN <<"{}">>
                           ELSE sorted_states[n].arguments]]]

AssistantMessage(role, content, sorted_states) ==
    IF sorted_states # <<>>
    THEN [role |-> role, content |-> content,
          tool_calls |-> MessageToolCalls(sorted_states)]
    ELSE [role |-> role, content |-> content]

(* --------------------------------- JSON --------------------------------- *)

\* A JSON text is a sequence of tokens: the brackets, the comma, a member's
\* key with its colon, a scalar, or white space.  No key and no string holds
\* a bracket or a comma.
KeyTokens == {"\"a\":", "\"requires_more_context\":", "\"reason\":",
              "\"follow_up_instruction\":", "\"suggested_query\":", "\"query\":"}

\* the key a key token stands for
KeyName(token) ==
    CASE token = "\"a\":" -> "a"
      [] token = "\"requires_more_context\":" -> "requires_more_context"
      [] token = "\"reason\":" -> "reason"
      [] token = "\"follow_up_instruction\":" -> "follow_up_instruction"
      [] token = "\"suggested_query\":" -> "suggested_query"
      [] token = "\"query\":" -> "query"

ScalarTokens == {"1", "\"x\"", "\"\"", "true", "false", "null"}

\* the type of the value json.loads returns for a scalar
ScalarType(token) ==
    CASE token = "1" -> "number"
      [] token \in {"\"x\"", "\"\""} -> "string"
      [] token \in {"true", "false"} -> "boolean"
      [] token = "null" -> "null"

\* the Python value json.loads returns for a scalar
ScalarValue(token) ==
    CASE token = "\"x\"" -> "x"
      [] token = "\"\"" -> ""
      [] token = "null" -> None
      [] OTHER -> token

Whitespace == {" "}

IsWhitespace(token) == token \in Whitespace

\* json.loads raises JSONDecodeError
JsonFails == [ok |-> FALSE, type |-> "none", value |-> <<>>, next |-> 0]

\* a value has been read and the text goes on at position next; an object is
\* a set of <<key, value, type of the value>> triples, an array a sequence
JsonValue(type, value, next) ==
    [ok |-> TRUE, type |-> type, value |-> value, next |-> next]

\* dict[key] = value
Put(dict, key, value, type) ==
    {member \in dict : member[1] # key} \cup {<<key, value, type>>}

\* the JSON type of dict[key]
TypeOf(dict, key) == (CHOOSE member \in dict : member[1] = key)[3]

RECURSIVE ParseValue(_, _)
RECURSIVE ParseMembers(_, _, _, _)
RECURSIVE ParseItems(_, _, _, _)

\* the value that starts at position i of the tokens
ParseValue(tokens, i) ==
    IF i > Len(tokens) THEN JsonFails
    ELSE CASE tokens[i] = "{" -> ParseMembers(tokens, i + 1, {}, TRUE)
           [] tokens[i] = "[" -> ParseItems(tokens, i + 1, <<>>, TRUE)
           [] tokens[i] \in ScalarTokens ->
                  JsonValue(ScalarType(tokens[i]), ScalarValue(tokens[i]), i + 1)
           [] OTHER -> JsonFails

\* the members of an object from position i on, up to its closing brace;
\* first is TRUE right after the opening brace
ParseMembers(tokens, i, members, first) ==
    IF i > Len(tokens) THEN JsonFails
    ELSE IF first /\ tokens[i] = "}" THEN JsonValue("object", members, i + 1)
    ELSE IF tokens[i] \notin KeyTokens THEN JsonFails
    ELSE LET member == ParseValue(tokens, i + 1)
             extended == Put(members, KeyName(tokens[i]), member.value,
                             member.type)
         IN  IF ~member.ok \/ member.next > Len(tokens) THEN JsonFails
             ELSE IF tokens[member.next] = "}"
             THEN JsonValue("object", extended, member.next + 1)
             ELSE IF tokens[member.next] = ","
             THEN ParseMembers(tokens, member.next + 1, extended, FALSE)
             ELSE JsonFails

\* the items of an array from position i on, up to its closing bracket
ParseItems(tokens, i, items, first) ==
    IF i > Len(tokens) THEN JsonFails
    ELSE IF first /\ tokens[i] = "]" THEN JsonValue("array", items, i + 1)
    ELSE LET item == ParseValue(tokens, i)
             extended == Append(items, item.value)
         IN  IF ~item.ok \/ item.next > Len(tokens) THEN JsonFails
             ELSE IF tokens[item.next] = "]"
             THEN JsonValue("array", extended, item.next + 1)
             ELSE IF tokens[item.next] = ","
             THEN ParseItems(tokens, item.next + 1, extended, FALSE)
             ELSE JsonFails

NotWhitespace(token) == ~IsWhitespace(token)

\* json.loads(text): one value, white space around the tokens, nothing else
JsonLoads(text) ==
    LET tokens == SelectSeq(text, NotWhitespace)
        parsed == ParseValue(tokens, 1)
    IN  IF parsed.ok /\ parsed.next = Len(tokens) + 1 THEN parsed ELSE JsonFails

\* a Python value with its type; a dict is of type "object"
Typed(type, value) == [type |-> type, value |-> value]

\* str.lstrip()
RECURSIVE LStrip(_)
LStrip(text) ==
    IF text # <<>> /\ IsWhitespace(Head(text)) THEN LStrip(Tail(text)) ELSE text

\* str.rstrip()
RECURSIVE RStrip(_)
RStrip(text) ==
    IF text # <<>> /\ IsWhitespace(Last(text))
    THEN RStrip(SubSeq(text, 1, Len(text) - 1)) ELSE text

\* str.strip()
Strip(text) == RStrip(LStrip(text))

(* --------------------------- the event handler -------------------------- *)

\* the types of the events of a run
EventTypes == {"run", "answer", "tool_call", "reflection"}

\* event_handler=None
NoHandler == [present |-> FALSE, raises_on |-> {}]

\* an event handler, given by the types of the events on which it raises
Handler(raises_on) == [present |-> TRUE, raises_on |-> raises_on]

Handlers == {NoHandler} \cup {Handler(types) : types \in SUBSET EventTypes}

\* event_handler(event): the exception it raises, None if it returns
HandlerCall(handler, event) ==
    IF event.type \in handler.raises_on THEN "HandlerError" ELSE None

\* the mutant of EmitOne: the call of the handler is not guarded
EmitOneUnguarded(handler, event) ==
    IF handler.present
    THEN [raises |-> HandlerCall(handler, event), logged |-> FALSE]
    ELSE [raises |-> None, logged |-> FALSE]

\* emit(event): the exception that leaves it, and whether it logged a warning
EmitOne(handler, event) ==
    IF handler.present
    THEN LET exc == HandlerCall(handler, event)
         IN  IF exc # None
             THEN [raises |-> None, logged |-> TRUE]
             ELSE [raises |-> None, logged |-> FALSE]
    ELSE [raises |-> None, logged |-> FALSE]

\* emit() called on each of the events in turn, up to the first call that
\* does not return: the events it was called with, and the exception
RECURSIVE EmitAll(_, _)
EmitAll(handler, new_events) ==
    IF new_events = <<>> THEN [offered |-> <<>>, raises |-> None]
    ELSE LET first == EmitOne(handler, Head(new_events))
             rest == EmitAll(handler, Tail(new_events))
         IN  IF first.raises # None
             THEN [offered |-> <<Head(new_events)>>, raises |-> first.raises]
             ELSE [offered |-> <<Head(new_events)>> \o rest.offered,
                   raises |-> rest.raises]

(* ---------------------------- tool registry ---------------------------- *)

\* default_tooling(): the names ToolRegistry._tools holds
Registered == {"web_search", "fetch_url_content", "current_time_utc", "echo"}

ToolExecution(name, arguments, content) ==
    [raises |-> None, name |-> name, arguments |-> arguments, content |-> content]

ToolRaises(error) == [raises |-> error]

\* isinstance(kwargs.get(key), str)
IsStr(kwargs, key) == HasKey(kwargs, key) /\ TypeOf(kwargs, key) = "string"

\* WebSearchTool.run(**kwargs); output is what the search returns
WebSearchToolRun(kwargs, output) ==
    LET query == Get(kwargs, "query", None)
    IN  IF ~IsStr(kwargs, "query") \/ query = ""
        THEN ToolRaises("ValueError")
        ELSE ToolExecution("web_search",
                           {<<"query", query>>,
                            <<"num_results", Get(kwargs, "num_results", "5")>>},
                           output)

\* UrlContentTool.run(**kwargs); output is what the fetch returns
UrlContentToolRun(kwargs, output) ==
    LET url == Get(kwargs, "url", None)
    IN  IF ~IsStr(kwargs, "url") \/ url = ""
        THEN ToolRaises("ValueError")
        ELSE ToolExecution("fetch_url_content",
                           {<<"url", url>>,
                            <<"max_characters", Get(kwargs, "max_characters", "8000")>>},
                           output)

\* CurrentTimeTool.run(**kwargs); output is the clock's reading
CurrentTimeToolRun(kwargs, output) ==
    ToolExecution("current_time_utc", EmptyDict, output)

\* EchoTool.run(**kwargs)
EchoToolRun(kwargs) ==
    LET message == Get(kwargs, "message", "")
    IN  ToolExecution("echo", {<<"message", message>>},
                      <<"{\"echo\": \"", message, "\"}">>)

\* the mutant of RegistryExecute: a name that is not registered gets an
\* execution without content instead of the ValueError
RegistryExecuteLenient(tool_name, arguments, output) ==
    CASE tool_name \notin Registered ->
             ToolExecution(tool_name, arguments.value, <<>>)
      [] arguments.type # "object" -> ToolRaises("TypeError")
      [] tool_name = "web_search" -> WebSearchToolRun(arguments.value, output)
      [] tool_name = "fetch_url_content" -> UrlContentToolRun(arguments.value, output)
      [] tool_name = "current_time_utc" -> CurrentTimeToolRun(arguments.value, output)
      [] tool_name = "echo" -> EchoToolRun(arguments.value)

\* ToolRegistry.execute(tool_name, arguments), arguments being what
\* _parse_arguments returned: tool.run(**arguments) raises TypeError for
\* arguments that are not a mapping
RegistryExecute(tool_name, arguments, output) ==
    CASE tool_name \notin Registered -> ToolRaises("ValueError")
      [] arguments.type # "object" -> ToolRaises("TypeError")
      [] tool_name = "web_search" -> WebSearchToolRun(arguments.value, output)
      [] tool_name = "fetch_url_content" -> UrlContentToolRun(arguments.value, output)
      [] tool_name = "current_time_utc" -> CurrentTimeToolRun(arguments.value, output)
      [] tool_name = "echo" -> EchoToolRun(arguments.value)

\* the mutant of OutputPreview: the whole output
OutputPreviewWhole(content) == content

\* value.count(token)
Count(text, token) == Cardinality({i \in 1..Len(text) : text[i] = token})

\* token * count
Repeat(token, count) == [i \in 1..count |-> token]

\* attempts[-1].rstrip(",")
RECURSIVE RStripCommas(_)
RStripCommas(text) ==
    IF text # <<>> /\ Last(text) = ","
    THEN RStripCommas(SubSeq(text, 1, Len(text) - 1)) ELSE text

\* _patch_brackets(value): the texts to try, in order
PatchBrackets(value) ==
    LET brace_delta == Count(value, "{") - Count(value, "}")
        bracket_delta == Count(value, "[") - Count(value, "]")
        braced == IF brace_delta > 0
                  THEN value \o Repeat("}", brace_delta) ELSE value
        patched == IF bracket_delta > 0
                   THEN braced \o Repeat("]", bracket_delta) ELSE braced
        attempts == <<value>>
                    \o (IF brace_delta > 0 THEN <<braced>> ELSE <<>>)
                    \o (IF bracket_delta > 0 THEN <<patched>> ELSE <<>>)
    IN  IF Last(attempts) # <<>> /\ Last(Last(attempts)) = ","
        THEN Append(attempts, RStripCommas(Last(attempts)) \o <<"}">>)
        ELSE attempts

\* the loop over the attempts: what json.loads returns for the first one it
\* accepts, whatever its type, and the empty dict if it accepts none
RECURSIVE FirstLoaded(_)
FirstLoaded(attempts) ==
    IF attempts = <<>> THEN Typed("object", EmptyDict)
    ELSE LET loaded == JsonLoads(Head(attempts))
         IN  IF loaded.ok THEN Typed(loaded.type, loaded.value)
             ELSE FirstLoaded(Tail(attempts))

\* _parse_arguments(raw) for the argument text of a finalized tool call
ParseArguments(raw) ==
    IF raw = <<>> THEN Typed("object", EmptyDict)
    ELSE LET candidate == Strip(raw)
         IN  IF candidate = <<>> THEN Typed("object", EmptyDict)
             ELSE FirstLoaded(PatchBrackets(candidate))

\* execution.content[:500]
OutputPreview(content) == SubSeq(content, 1, Min(PREVIEW_LIMIT, Len(content)))

(* -------------------------- the reflection agent ------------------------- *)

\* A judgment text is a sequence of tokens: JSON tokens, the code fence, the
\* (three backquotes, written <fence>), the language tag after it, and prose.
\* Prose other than a brace holds no brace.
Fence == "<fence>"

\* the body group of the fence pattern for a trimmed text that matches it:
\* what lies between the first fence, with its language tag, and the last
FenceBody(trimmed) ==
    LET inner == SubSeq(trimmed, 2, Len(trimmed) - 1)
    IN  IF inner # <<>> /\ Head(inner) = "json" THEN Tail(inner) ELSE inner

\* ReflectionAgent._strip_code_fence(payload)
StripCodeFence(text) ==
    LET trimmed == Strip(text)
    IN  IF Len(trimmed) >= 2 /\ Head(trimmed) = Fence /\ Last(trimmed) = Fence
        THEN Strip(FenceBody(trimmed))
        ELSE trimmed

\* the mutant of ScanForObject: the scan keeps the text from the first
\* opening brace to the end
RECURSIVE ScanForObjectToEnd(_, _, _, _)
ScanForObjectToEnd(text, index, depth, start_index) ==
    IF index > Len(text) THEN <<>>
    ELSE IF text[index] = "{" THEN SubSeq(text, index, Len(text))
    ELSE ScanForObjectToEnd(text, index + 1, depth, start_index)

\* the loop of _extract_json_object from position index on; <<>> is None
RECURSIVE ScanForObject(_, _, _, _)
ScanForObject(text, index, depth, start_index) ==
    IF index > Len(text) THEN <<>>
    ELSE IF text[index] = "{"
    THEN ScanForObject(text, index + 1, depth + 1,
                       IF depth = 0 THEN index ELSE start_index)
    ELSE IF text[index] = "}" /\ depth > 0
    THEN (IF depth = 1 THEN SubSeq(text, start_index, index)
          ELSE ScanForObject(text, index + 1, depth - 1, start_index))
    ELSE ScanForObject(text, index + 1, depth, start_index)

\* ReflectionAgent._extract_json_object(payload)
ExtractJsonObject(text) == ScanForObject(text, 1, 0, 0)

\* the loop over the candidates: what json.loads returns for the first one
\* that is not empty and that it accepts, and None if there is none
RECURSIVE FirstParsed(_)
FirstParsed(candidates) ==
    IF candidates = <<>> THEN Typed("null", None)
    ELSE LET loaded == JsonLoads(Head(candidates))
         IN  IF Head(candidates) # <<>> /\ loaded.ok
             THEN Typed(loaded.type, loaded.value)
             ELSE FirstParsed(Tail(candidates))

\* ReflectionAgent._parse_reflection_payload(payload)
ParseReflectionPayload(text) ==
    LET extracted == ExtractJsonObject(text)
    IN  FirstParsed(<<text, StripCodeFence(text)>>
                    \o (IF extracted # <<>> THEN <<extracted>> ELSE <<>>))

\* bool(value)
Truthy(value, type) ==
    CASE type = "boolean" -> value = "true"
      [] type = "null" -> FALSE
      [] type = "string" -> value # ""
      [] type = "number" -> value # "0"
      [] type = "array" -> value # <<>>
      [] type = "object" -> value # {}

\* evaluate() returns a record
Returns(record) == [raises |-> None, record |-> record]

\* the record evaluate() builds from reflection_data
RecordOf(reflection_data) ==
    LET requires_more_context ==
            /\ HasKey(reflection_data, "requires_more_context")
            /\ Truthy(Get(reflection_data, "requires_more_context", "false"),
                      TypeOf(reflection_data, "requires_more_context"))
    IN  ReflectionRecord(
            requires_more_context,
            Get(reflection_data, "reason", ""),
            Get(reflection_data, "follow_up_instruction",
                IF ~requires_more_context
                THEN "No further action required." ELSE ""),
            Get(reflection_data, "suggested_query", None))

\* the reflection_data evaluate() takes when nothing was parsed
UnparsedData ==
    {<<"requires_more_context", "false", "boolean">>,
     <<"reason", "Could not parse reflection JSON.", "string">>,
     <<"follow_up_instruction", "", "string">>}

\* ReflectionAgent.evaluate() from what llm_call returned on: the payload is
\* <<>> for a message without content (None), <<text>> otherwise
Evaluate(llm_returned) ==
    IF llm_returned = <<>> THEN [raises |-> "AttributeError"]
    ELSE LET parsed_reflection == ParseReflectionPayload(llm_returned[1])
         IN  IF parsed_reflection.type = "null"
             THEN Returns(RecordOf(UnparsedData))
             ELSE IF parsed_reflection.type # "object"
             THEN [raises |-> "AttributeError"]
             ELSE Returns(RecordOf(parsed_reflection.value))

(* ------------------------------ the run -------------------------------- *)

VARIABLES
    pc,                     \* where run() is: start, loop, stream, aggregated,
                            \* dispatch, reflect, done
    max_turns,              \* self.max_turns
    max_reflection_rounds,  \* self.max_reflection_rounds
    event_handler,          \* the event_handler argument of run()
    turn,                   \* the loop variable of the turn loop
    messages,
    tool_calls,             \* the ToolCallRecords of the run
    reflections,            \* the ReflectionRecords of the run
    answer,                 \* <<>> for None, <<text>> otherwise
    reflection_attempts,
    assistant_role,
    assistant_content,
    tool_call_states,
    sorted_tool_states,
    cursor,                 \* position of the dispatch loop in sorted_tool_states
    events,                 \* what emit() was called with, in order
    returned,               \* <<>> or <<the AgentResult run() returned>>
    raised,                 \* None or the error run() raised
    requests,               \* llm_chat calls the turn loop has issued
    evaluations,            \* calls of reflection_agent.evaluate
    reflection_input,       \* <<>> or <<what the last call of evaluate gave
                            \* to llm_call>>
    chunks_seen,            \* chunks the gateway has delivered
    raw,                    \* the argument text streamed for a tool call
    parsed_arguments,         \* what _parse_arguments(raw) returned
    payload,                \* what llm_call returned to evaluate(): <<>> for
                            \* None, <<text>> otherwise
    verdict,                \* what evaluate() returned or raised
    reflection_agent_model, \* self.reflection_agent.model of the shared agent
    runs,                   \* the locals of each run() on the shared agent
    consumer,               \* the generator of the event stream: reading,
                            \* cancelled, finished
    delivered,              \* the queue items the generator has yielded
    cancelled_at,           \* what the run had done when its consumer left
    summarizing,            \* how the gateway answers summarizer requests
    given_history,          \* the chat_history argument of run()
    contexts,               \* what the calls of _build_history_context made
                            \* of it, one after the other
    fragments,              \* the tool-call fragments the turn has consumed
    consumed,               \* the chunks the run has taken from its streams,
                            \* each with its turn and the events emitted by then
    streaming_enabled,      \* model_config.streaming_enabled(provider) of the
                            \* run's model
    completions             \* the complete messages the gateway has answered
                            \* requests with, each with its turn

vars == << pc, max_turns, max_reflection_rounds, event_handler, turn, messages, tool_calls,
           reflections, answer, reflection_attempts, assistant_role,
           assistant_content, tool_call_states, sorted_tool_states, cursor,
           events, returned, raised, requests, evaluations, reflection_input,
           chunks_seen, raw, parsed_arguments, payload, verdict, reflection_agent_model, runs,
           consumer, delivered, cancelled_at, summarizing, given_history, contexts,
           fragments, consumed, streaming_enabled, completions >>

\* the variables of the parsing functions taken on their own
parsing == << raw, parsed_arguments, payload, verdict >>

\* the variables of the agent that several runs share
sharing == << reflection_agent_model, runs >>

\* not computed yet
Pending == Typed("pending", <<>>)

\* no parsing function is being looked at
ParsingIdle ==
    /\ raw = <<>>
    /\ parsed_arguments = Pending
    /\ payload = <<>>
    /\ verdict = Pending

\* no second run is looked at
SharingIdle ==
    /\ reflection_agent_model = None
    /\ runs = <<>>

\* the variables of the event stream of main.py
streaming == << consumer, delivered, cancelled_at >>

\* the run is not streamed to a consumer
StreamingIdle ==
    /\ consumer = None
    /\ delivered = 0
    /\ cancelled_at = <<>>

\* the variables of history compaction
compaction == << summarizing, given_history, contexts >>

\* no history is compacted
CompactionIdle ==
    /\ summarizing = None
    /\ given_history = <<>>
    /\ contexts = <<>>

\* the variables of what a run has taken from its streams
recording == << fragments, consumed >>

\* what the run takes from its streams is not kept
RecordingIdle ==
    /\ fragments = <<>>
    /\ consumed = <<>>

\* the variables of the gateway's way of answering
gateway == << streaming_enabled, completions >>

\* the gateway streams its answers
GatewayIdle ==
    /\ streaming_enabled = TRUE
    /\ completions = <<>>

\* what is modelled apart from the single run and the parsing functions
besides == << sharing, streaming, compaction, recording, gateway >>

BesidesIdle ==
    SharingIdle /\ StreamingIdle /\ CompactionIdle /\ RecordingIdle /\ GatewayIdle

\* what is modelled apart from the single run
apart == << parsing, besides >>

ApartIdle == ParsingIdle /\ BesidesIdle

config == << max_turns, max_reflection_rounds, event_handler >>

turn_state == << assistant_role, assistant_content, tool_call_states,
                 sorted_tool_states, cursor >>

\* the state when run() is entered, whatever its event handler
InitRun ==
    /\ pc = "start"
    /\ max_turns \in 0..MaxTurns
    /\ max_reflection_rounds \in 0..MaxRounds
    /\ turn = 0
    /\ messages = <<>>
    /\ tool_calls = <<>>
    /\ reflections = <<>>
    /\ answer = <<>>
    /\ reflection_attempts = 0
    /\ assistant_role = "assistant"
    /\ assistant_content = <<>>
    /\ tool_call_states = <<>>
    /\ sorted_tool_states = <<>>
    /\ cursor = 0
    /\ events = <<>>
    /\ returned = <<>>
    /\ raised = None
    /\ requests = 0
    /\ evaluations = 0
    /\ reflection_input = <<>>
    /\ chunks_seen = 0

\* a run with an event handler that returns
Init ==
    /\ InitRun
    /\ event_handler = Handler({})
    /\ ApartIdle

\* no run is under way
IdleRun ==
    /\ InitRun
    /\ max_turns = 0
    /\ max_reflection_rounds = 0
    /\ event_handler = NoHandler

\* run() up to the turn loop: the run/start event and the initial messages
RunStart ==
    /\ pc = "start"
    /\ events' = events \o EmitAll(event_handler, <<RunStartEvent>>).offered
    /\ messages' = InitialMessages
    /\ pc' = "loop"
    /\ UNCHANGED << config, apart, reflection_input, turn, tool_calls, reflections, answer,
                    reflection_attempts, turn_state, returned, raised,
                    requests, evaluations, chunks_seen >>

\* an exception leaves run(): nothing more is emitted or appended
Raise(error) ==
    /\ pc' = "done"
    /\ raised' = error
    /\ returned' = returned

\* the mutant of AfterLoop: answer/final is emitted by a run that fails too
AfterLoopAlwaysFinal(final_answer, emitted) ==
    /\ pc' = "done"
    /\ IF final_answer = <<>>
       THEN /\ raised' = "RuntimeError"
            /\ returned' = returned
            /\ events' = emitted
                   \o EmitAll(event_handler,
                              <<AnswerFinalEvent(<<>>,
                                    build_agent_metadata(tool_calls',
                                                         reflections'))>>).offered
       ELSE /\ raised' = raised
            /\ returned' = <<AgentResult(final_answer[1], tool_calls', reflections')>>
            /\ events' = emitted
                   \o EmitAll(event_handler,
                              <<AnswerFinalEvent(final_answer[1],
                                    build_agent_metadata(tool_calls',
                                                         reflections'))>>).offered

\* the code after the turn loop, given the answer and the events so far
AfterLoop(final_answer, emitted) ==
    /\ pc' = "done"
    /\ IF final_answer = <<>>
       THEN /\ raised' = "RuntimeError"
            /\ returned' = returned
            /\ events' = emitted
       ELSE /\ raised' = raised
            /\ returned' = <<AgentResult(final_answer[1], tool_calls', reflections')>>
            /\ events' = emitted
                   \o EmitAll(event_handler,
                              <<AnswerFinalEvent(final_answer[1],
                                    build_agent_metadata(tool_calls',
                                                         reflections'))>>).offered

\* the mutant of TurnsRemain: one turn too many
TurnsRemainOffByOne(count, limit) == count <= limit

\* for turn in range(self.max_turns)
TurnsRemain(count, limit) == count < limit

\* the next turn's llm_chat call returns a stream
RequestCompletion ==
    /\ pc = "loop"
    /\ TurnsRemain(turn, max_turns)
    /\ requests' = requests + 1
    /\ assistant_content' = <<>>
    /\ assistant_role' = "assistant"
    /\ tool_call_states' = <<>>
    /\ pc' = "stream"
    /\ UNCHANGED << config, apart, reflection_input, turn, messages, tool_calls, reflections, answer,
                    reflection_attempts, sorted_tool_states, cursor, events,
                    returned, raised, evaluations, chunks_seen >>

\* the next turn's llm_chat call raises
RequestFails ==
    /\ pc = "loop"
    /\ TurnsRemain(turn, max_turns)
    /\ requests' = requests + 1
    /\ Raise("GatewayError")
    /\ UNCHANGED << config, apart, reflection_input, turn, messages, tool_calls, reflections, answer,
                    reflection_attempts, turn_state, events, evaluations,
                    chunks_seen >>

\* the turn loop ends because range(self.max_turns) is exhausted
LoopExhausted ==
    /\ pc = "loop"
    /\ ~TurnsRemain(turn, max_turns)
    /\ UNCHANGED << tool_calls, reflections >>
    /\ AfterLoop(answer, events)
    /\ UNCHANGED << config, apart, reflection_input, turn, messages, answer, reflection_attempts,
                    turn_state, requests, evaluations, chunks_seen >>

\* One iteration of "for chunk in stream": the chunk folded into the turn's
\* content and tool-call states, its events emitted.  A chunk is
\* [has_delta, role, content, tool_calls, finish_reason]; has_delta is FALSE
\* for a chunk with no choices or no delta, which the loop skips whole.
FoldChunk(chunk) ==
    /\ pc = "stream"
    /\ chunks_seen < MaxChunks
    /\ chunks_seen' = chunks_seen + 1
    /\ IF ~chunk.has_delta
       THEN UNCHANGED << pc, assistant_role, assistant_content,
                         tool_call_states, events >>
       ELSE LET texts == ContentTexts(chunk.content)
                folded == ApplyToolDeltas(tool_call_states, chunk.tool_calls)
            IN  /\ assistant_role' =
                      IF chunk.role # None THEN chunk.role ELSE assistant_role
                /\ assistant_content' = assistant_content \o Concat(texts)
                /\ tool_call_states' = folded.states
                /\ events' = events
                       \o EmitAll(event_handler,
                                  StreamEvents(texts) \o folded.events).offered
                /\ pc' = IF StopsStream(chunk.finish_reason)
                         THEN "aggregated" ELSE "stream"
    /\ UNCHANGED << config, reflection_input, turn, messages, tool_calls, reflections,
                    answer, reflection_attempts, sorted_tool_states, cursor,
                    returned, raised, requests, evaluations >>

\* the iteration in a run of which nothing else is looked at
ConsumeChunk(chunk) == FoldChunk(chunk) /\ UNCHANGED apart

\* the stream ends without a finish marker
StreamExhausted ==
    /\ pc = "stream"
    /\ pc' = "aggregated"
    /\ UNCHANGED << config, apart, reflection_input, turn, messages, tool_calls, reflections, answer,
                    reflection_attempts, turn_state, events, returned, raised,
                    requests, evaluations, chunks_seen >>

\* reading the next chunk raises
StreamFails ==
    /\ pc = "stream"
    /\ Raise("GatewayError")
    /\ UNCHANGED << config, apart, reflection_input, turn, messages, tool_calls, reflections, answer,
                    reflection_attempts, turn_state, events, requests,
                    evaluations, chunks_seen >>

\* the mutant of ShouldReflect: the budget test lets one round too many through
ShouldReflectOverBudget(records, attempts, rounds) ==
    records # <<>> /\ attempts <= rounds

\* the mutant of ShouldReflect: the test for earlier tool calls is missing
ShouldReflectWithoutTools(records, attempts, rounds) == attempts < rounds

\* tool_calls and reflection_attempts < self.max_reflection_rounds
ShouldReflect(records, attempts, rounds) ==
    records # <<>> /\ attempts < rounds

\* the mutant of TurnWithToolCalls: the content of a message with tool calls
\* is taken as the candidate answer as well
TurnWithToolCallsTakesAnswer ==
    /\ pc = "aggregated"
    /\ sorted_tool_states' = SortedToolStates(tool_call_states)
    /\ sorted_tool_states' # <<>>
    /\ messages' = Append(messages,
                          AssistantMessage(assistant_role, assistant_content,
                                           sorted_tool_states'))
    /\ answer' = <<assistant_content>>
    /\ cursor' = 1
    /\ pc' = "dispatch"
    /\ UNCHANGED << config, apart, reflection_input, turn, tool_calls, reflections,
                    reflection_attempts, assistant_role, assistant_content,
                    tool_call_states, events, returned, raised, requests,
                    evaluations, chunks_seen >>

\* The assistant message is built and appended; it carries tool calls, so
\* the dispatch loop starts.
TurnWithToolCalls ==
    /\ pc = "aggregated"
    /\ sorted_tool_states' = SortedToolStates(tool_call_states)
    /\ sorted_tool_states' # <<>>
    /\ messages' = Append(messages,
                          AssistantMessage(assistant_role, assistant_content,
                                           sorted_tool_states'))
    /\ cursor' = 1
    /\ pc' = "dispatch"
    /\ UNCHANGED << config, apart, reflection_input, turn, tool_calls, reflections, answer,
                    reflection_attempts, assistant_role, assistant_content,
                    tool_call_states, events, returned, raised, requests,
                    evaluations, chunks_seen >>

\* The assistant message is built and appended; it carries no tool calls, so
\* its content is the candidate answer and reflection is called for.
CandidateToReflection ==
    /\ pc = "aggregated"
    /\ sorted_tool_states' = SortedToolStates(tool_call_states)
    /\ sorted_tool_states' = <<>>
    /\ messages' = Append(messages,
                          AssistantMessage(assistant_role, assistant_content,
                                           sorted_tool_states'))
    /\ answer' = <<assistant_content>>
    /\ ShouldReflect(tool_calls, reflection_attempts, max_reflection_rounds)
    /\ pc' = "reflect"
    /\ UNCHANGED << config, apart, reflection_input, turn, tool_calls, reflections,
                    reflection_attempts, assistant_role, assistant_content,
                    tool_call_states, cursor, events, returned, raised,
                    requests, evaluations, chunks_seen >>

\* The assistant message is built and appended; it carries no tool calls and
\* reflection is not called for: break, and the code after the loop.
CandidateIsFinal ==
    /\ pc = "aggregated"
    /\ sorted_tool_states' = SortedToolStates(tool_call_states)
    /\ sorted_tool_states' = <<>>
    /\ messages' = Append(messages,
                          AssistantMessage(assistant_role, assistant_content,
                                           sorted_tool_states'))
    /\ answer' = <<assistant_content>>
    /\ ~ShouldReflect(tool_calls, reflection_attempts, max_reflection_rounds)
    /\ UNCHANGED << tool_calls, reflections >>
    /\ AfterLoop(answer', events)
    /\ UNCHANGED << config, apart, reflection_input, turn, reflection_attempts, assistant_role,
                    assistant_content, tool_call_states, cursor, requests,
                    evaluations, chunks_seen >>

\* state.get("arguments") or "{}"
RawArguments(state) ==
    IF state.arguments = <<>> THEN <<"{", "}">> ELSE state.arguments

\* the mutant of LateStart: the start is emitted again for a call whose
\* start the aggregator has emitted
LateStartRepeated(state) ==
    <<ToolCallStartEvent(state.id, state.name,
                         ParseArguments(RawArguments(state)).value)>>

\* the tool_call/start event the dispatch loop emits for a call whose start
\* the aggregator has not emitted
LateStart(state) ==
    IF state.emitted_start THEN <<>>
    ELSE <<ToolCallStartEvent(state.id, state.name,
                              ParseArguments(RawArguments(state)).value)>>

\* the dispatch loop at a call without a name: logged and skipped
SkipNamelessCall ==
    /\ pc = "dispatch"
    /\ cursor <= Len(sorted_tool_states)
    /\ sorted_tool_states[cursor].name = None
    /\ cursor' = cursor + 1
    /\ UNCHANGED << pc, config, apart, reflection_input, turn, messages, tool_calls, reflections, answer,
                    reflection_attempts, assistant_role, assistant_content,
                    tool_call_states, sorted_tool_states, events, returned,
                    raised, requests, evaluations, chunks_seen >>

\* the dispatch loop at a named call whose execution returns: the record,
\* the tool-role message and the finish event
ExecuteToolCall(output) ==
    /\ pc = "dispatch"
    /\ cursor <= Len(sorted_tool_states)
    /\ LET state == sorted_tool_states[cursor]
           arguments_dict == ParseArguments(RawArguments(state))
           execution == RegistryExecute(state.name, arguments_dict, output)
       IN  /\ state.name # None
           /\ execution.raises = None
           /\ tool_calls' = Append(tool_calls,
                                   ToolCallRecord(execution.name,
                                                  execution.arguments,
                                                  OutputPreview(execution.content)))
           /\ messages' = Append(messages,
                                 ToolMessage(state.id, state.name, execution.content))
           /\ events' = events
                  \o EmitAll(event_handler,
                             LateStart(state)
                             \o <<ToolCallFinishEvent(state.id, execution.name,
                                                      execution.content)>>).offered
    /\ cursor' = cursor + 1
    /\ UNCHANGED << pc, config, apart, reflection_input, turn, reflections, answer, reflection_attempts,
                    assistant_role, assistant_content, tool_call_states,
                    sorted_tool_states, returned, raised, requests,
                    evaluations, chunks_seen >>

\* the dispatch loop at a named call whose execution raises (the name is not
\* registered, or the tool rejects its arguments): the error leaves run()
ToolCallRaises(output) ==
    /\ pc = "dispatch"
    /\ cursor <= Len(sorted_tool_states)
    /\ LET state == sorted_tool_states[cursor]
           arguments_dict == ParseArguments(RawArguments(state))
           execution == RegistryExecute(state.name, arguments_dict, output)
       IN  /\ state.name # None
           /\ execution.raises # None
           /\ events' = events \o EmitAll(event_handler, LateStart(state)).offered
           /\ Raise(execution.raises)
    /\ UNCHANGED << config, apart, reflection_input, turn, messages, tool_calls, reflections, answer,
                    reflection_attempts, turn_state, requests, evaluations,
                    chunks_seen >>

\* the mutant of DispatchDone: the continue is missing, and the turn falls
\* through to the candidate answer and its reflection
DispatchDoneFallsThrough ==
    /\ pc = "dispatch"
    /\ cursor > Len(sorted_tool_states)
    /\ answer' = <<assistant_content>>
    /\ pc' = "reflect"
    /\ UNCHANGED << config, apart, reflection_input, turn, messages, tool_calls, reflections,
                    reflection_attempts, turn_state, events, returned, raised,
                    requests, evaluations, chunks_seen >>

\* the dispatch loop is through: continue with the next turn
DispatchDone ==
    /\ pc = "dispatch"
    /\ cursor > Len(sorted_tool_states)
    /\ turn' = turn + 1
    /\ pc' = "loop"
    /\ UNCHANGED << config, apart, reflection_input, messages, tool_calls, reflections, answer,
                    reflection_attempts, turn_state, events, returned, raised,
                    requests, evaluations, chunks_seen >>

\* the system message with the reflection's feedback
FeedbackMessage(reflection) ==
    SystemMessage(
        <<"Reflection feedback indicates more work is needed.",
          "Reason: ", reflection.reason>>
        \o (IF reflection.follow_up_instruction # ""
            THEN <<"Instruction: ", reflection.follow_up_instruction>> ELSE <<>>)
        \o (IF reflection.suggested_query \notin {None, ""}
            THEN <<"Suggested query: ", reflection.suggested_query>> ELSE <<>>))

\* the mutant of FollowUpMessages: the follow-up is appended whether or not
\* a query was suggested
FollowUpMessagesUnconditional(reflection) ==
    <<UserMessage(<<"Follow the reflection guidance. Consider searching for: ",
                    reflection.suggested_query>>)>>

\* the follow-up user message, only for a suggested query
FollowUpMessages(reflection) ==
    IF reflection.suggested_query \notin {None, ""}
    THEN <<UserMessage(<<"Follow the reflection guidance. Consider searching for: ",
                         reflection.suggested_query>>)>>
    ELSE <<>>

\* the mutant of AsksForMore: the verdict is not looked at
AsksForMoreWhateverVerdict(reflection, attempts, rounds) == attempts <= rounds

\* reflection.requires_more_context and
\* reflection_attempts <= self.max_reflection_rounds
AsksForMore(reflection, attempts, rounds) ==
    reflection.requires_more_context /\ attempts <= rounds

\* json.dumps({"question", "answer", "tool_history"}) of evaluate(): what
\* the reflection request says of the run, the question being the same in
\* every request
ReflectionInput(candidate, tool_history) ==
    [answer |-> candidate,
     tool_history |->
         [k \in 1..Len(tool_history) |->
              [name |-> tool_history[k].name,
               arguments |-> tool_history[k].arguments,
               output_preview |-> tool_history[k].output_preview]]]

\* evaluate() returns a record asking for more context: the reflection
\* event, the feedback messages, and the next turn
ReflectionRejects(reflection) ==
    /\ pc = "reflect"
    /\ evaluations' = evaluations + 1
    /\ reflection_input' = <<ReflectionInput(answer[1], tool_calls)>>
    /\ reflections' = Append(reflections, reflection)
    /\ reflection_attempts' = reflection_attempts + 1
    /\ AsksForMore(reflection, reflection_attempts', max_reflection_rounds)
    /\ events' = events
           \o EmitAll(event_handler, <<ReflectionEvent(reflection)>>).offered
    /\ messages' = Append(messages, FeedbackMessage(reflection))
                   \o FollowUpMessages(reflection)
    /\ turn' = turn + 1
    /\ pc' = "loop"
    /\ UNCHANGED << config, apart, tool_calls, answer, turn_state, returned, raised,
                    requests, chunks_seen >>

\* evaluate() returns a record that does not ask for more: break, and the
\* code after the loop
ReflectionAccepts(reflection) ==
    /\ pc = "reflect"
    /\ evaluations' = evaluations + 1
    /\ reflection_input' = <<ReflectionInput(answer[1], tool_calls)>>
    /\ reflections' = Append(reflections, reflection)
    /\ reflection_attempts' = reflection_attempts + 1
    /\ ~AsksForMore(reflection, reflection_attempts', max_reflection_rounds)
    /\ UNCHANGED tool_calls
    /\ AfterLoop(answer, events)
    /\ UNCHANGED << config, apart, turn, messages, answer, turn_state, requests,
                    chunks_seen >>

\* evaluate() raises (its gateway call fails)
ReflectionFails ==
    /\ pc = "reflect"
    /\ evaluations' = evaluations + 1
    /\ reflection_input' = <<ReflectionInput(answer[1], tool_calls)>>
    /\ Raise("GatewayError")
    /\ UNCHANGED << config, apart, turn, messages, tool_calls, reflections, answer,
                    reflection_attempts, turn_state, events, requests,
                    chunks_seen >>

(* --------------------------- the environment --------------------------- *)

Indices == {0, 1}

ToolDelta(index, id, name) ==
    [index |-> index, id |-> id, name |-> name, arguments |-> <<>>]

\* The tool-call fragments the gateway streams: for each index a fragment
\* naming echo, with or without an id; for index 0 also a fragment without
\* a name, with or without an id, a fragment naming web_search (which rejects
\* its empty arguments) and one naming a tool that is not registered.
Deltas ==
    {ToolDelta(index, id, "echo") : index \in Indices, id \in {None, "call_x"}}
    \cup {ToolDelta(0, id, None) : id \in {None, "call_x"}}
    \cup {ToolDelta(0, "call_x", "web_search"), ToolDelta(0, "call_x", "no_such_tool")}

NoContent == [kind |-> "none"]

Chunk(content, tool_call_deltas, finish_reason) ==
    [has_delta |-> TRUE, role |-> None, content |-> content,
     tool_calls |-> tool_call_deltas, finish_reason |-> finish_reason]

\* the chunks the gateway streams: a content fragment, one tool-call
\* fragment, or the finish marker
Chunks ==
    {Chunk([kind |-> "str", text |-> <<"a">>], <<>>, None)}
    \cup {Chunk(NoContent, <<d>>, None) : d \in Deltas}
    \cup {Chunk(NoContent, <<>>, "stop")}

\* what a tool gets from the outside world
ToolOutputs == {<<"OUTPUT">>}

\* the records evaluate() returns: one that accepts, and records that ask for
\* more with and without an instruction and a suggested query
Verdicts ==
    {ReflectionRecord(FALSE, "r", "No further action required.", None),
     ReflectionRecord(TRUE, "r", "", None),
     ReflectionRecord(TRUE, "r", "i", None),
     ReflectionRecord(TRUE, "r", "i", "q")}

Next ==
    \/ RunStart
    \/ RequestCompletion
    \/ RequestFails
    \/ LoopExhausted
    \/ \E chunk \in Chunks : ConsumeChunk(chunk)
    \/ StreamExhausted
    \/ StreamFails
    \/ TurnWithToolCalls
    \/ CandidateToReflection
    \/ CandidateIsFinal
    \/ SkipNamelessCall
    \/ \E output \in ToolOutputs : ExecuteToolCall(output)
    \/ \E output \in ToolOutputs : ToolCallRaises(output)
    \/ DispatchDone
    \/ \E reflection \in Verdicts : ReflectionRejects(reflection)
    \/ \E reflection \in Verdicts : ReflectionAccepts(reflection)
    \/ ReflectionFails

Spec == Init /\ [][Next]_vars

(* ------------------ the run under every event handler ------------------ *)

\* the handlers of these runs: none, one that returns, one that raises on
\* every event
RunHandlers == {NoHandler, Handler({}), Handler(EventTypes)}

InitSink ==
    /\ InitRun
    /\ event_handler \in RunHandlers
    /\ ApartIdle

\* the chunks of these runs: a content fragment, and a fragment naming echo,
\* naming no tool, or naming a tool that is not registered
SinkChunks ==
    {Chunk([kind |-> "str", text |-> <<"a">>], <<>>, None),
     Chunk(NoContent, <<ToolDelta(0, None, "echo")>>, None),
     Chunk(NoContent, <<ToolDelta(0, None, None)>>, None),
     Chunk(NoContent, <<ToolDelta(0, "call_x", "no_such_tool")>>, None)}

NextSink ==
    \/ RunStart
    \/ RequestCompletion
    \/ RequestFails
    \/ LoopExhausted
    \/ \E chunk \in SinkChunks : ConsumeChunk(chunk)
    \/ StreamExhausted
    \/ StreamFails
    \/ TurnWithToolCalls
    \/ CandidateToReflection
    \/ CandidateIsFinal
    \/ SkipNamelessCall
    \/ \E output \in ToolOutputs : ExecuteToolCall(output)
    \/ \E output \in ToolOutputs : ToolCallRaises(output)
    \/ DispatchDone
    \/ \E reflection \in Verdicts : ReflectionRejects(reflection)
    \/ \E reflection \in Verdicts : ReflectionAccepts(reflection)
    \/ ReflectionFails

SpecSink == InitSink /\ [][NextSink]_vars

(* ------------------- the argument text of a tool call ------------------- *)

\* the tokens of the argument texts: the brackets, the comma, a key and a
\* number
ArgTokens == {"{", "}", "[", "]", ",", "\"a\":", "1"}

InitArgs ==
    /\ IdleRun
    /\ ApartIdle

\* the aggregator appends a fragment to the call's argument text
StreamArgumentFragment(token) ==
    /\ parsed_arguments = Pending
    /\ Len(raw) < MaxArgTokens
    /\ raw' = Append(raw, token)
    /\ UNCHANGED << pc, config, reflection_input, turn, messages, tool_calls, reflections, answer,
                    reflection_attempts, turn_state, events, returned, raised,
                    requests, evaluations, chunks_seen, parsed_arguments,
                    payload, verdict, besides >>

\* the dispatch loop parses the argument text of the finalized call
ParseStreamedArguments ==
    /\ parsed_arguments = Pending
    /\ parsed_arguments' = ParseArguments(RawArguments([arguments |-> raw]))
    /\ UNCHANGED << pc, config, reflection_input, turn, messages, tool_calls, reflections, answer,
                    reflection_attempts, turn_state, events, returned, raised,
                    requests, evaluations, chunks_seen, raw, payload, verdict,
                    besides >>

NextArgs ==
    \/ \E token \in ArgTokens : StreamArgumentFragment(token)
    \/ ParseStreamedArguments

SpecArgs == InitArgs /\ [][NextArgs]_vars

(* --------------------------- the judgment text -------------------------- *)

\* the sequences of at most count elements of set
RECURSIVE SeqsUpTo(_, _)
SeqsUpTo(set, count) ==
    IF count = 0 THEN {<<>>}
    ELSE LET shorter == SeqsUpTo(set, count - 1)
         IN  shorter \cup {Append(seq, element) : seq \in shorter, element \in set}

\* the prose around a judgment: words, white space and stray braces
Proses == SeqsUpTo({"Sure:", " ", "{", "}"}, MaxProse)

\* how the judgment proper is fenced: not at all, or by a code fence with or
\* without its language tag, with or without its closing fence
FenceOpenings == {<<>>, <<Fence>>, <<Fence, "json">>}

FenceClosings == {<<>>, <<Fence>>}

\* the judgment proper: objects, an object cut short, other JSON values, and
\* nothing
JudgmentBodies ==
    {<<"{", "}">>,
     <<"{", "\"requires_more_context\":", "true", "}">>,
     <<"{", "\"requires_more_context\":", "false", ",", "\"reason\":", "\"x\"", "}">>,
     <<"{", "\"requires_more_context\":", "true", ",", "\"suggested_query\":", "\"x\"", "}">>,
     <<"{", "\"reason\":", "{", "}", "}">>,
     <<"{", "\"requires_more_context\":", "true">>,
     <<"[", "1", "]">>,
     <<"1">>,
     <<"\"x\"">>,
     <<"null">>,
     <<>>}

JudgmentTexts ==
    {before \o opening \o body \o closing \o after :
        before \in Proses, opening \in FenceOpenings, body \in JudgmentBodies,
        closing \in FenceClosings, after \in Proses}

\* llm_call has returned the content of the judgment: a text or None
InitReflection ==
    /\ IdleRun
    /\ raw = <<>>
    /\ parsed_arguments = Pending
    /\ payload \in {<<>>} \cup {<<text>> : text \in JudgmentTexts}
    /\ verdict = Pending
    /\ BesidesIdle

\* evaluate() from the return of llm_call on
EvaluateJudgment ==
    /\ verdict = Pending
    /\ verdict' = Evaluate(payload)
    /\ UNCHANGED << pc, config, reflection_input, turn, messages, tool_calls, reflections, answer,
                    reflection_attempts, turn_state, events, returned, raised,
                    requests, evaluations, chunks_seen, raw, parsed_arguments,
                    payload, besides >>

NextReflection == EvaluateJudgment

SpecReflection == InitReflection /\ [][NextReflection]_vars

(* ------------------- two runs on the one shared agent ------------------- *)

\* the turns of the shared agent's runs
MaxSharedTurns == 2

\* MODELS: the configured chat models, id to provider model name
MODELS == [model_a |-> "name_a", model_b |-> "name_b"]

\* next(iter(MODELS.keys())) when WEB_AGENT_DEFAULT_MODEL is not set
DEFAULT_CHAT_MODEL == "model_a"

\* canonical_chat_model(model): the id of the configuration that has the
\* model as its id or as its provider model name
CanonicalChatModel(model) ==
    LET target == IF model # None THEN model ELSE DEFAULT_CHAT_MODEL
    IN  IF target \in DOMAIN MODELS THEN target
        ELSE IF \E id \in DOMAIN MODELS : MODELS[id] = target
        THEN CHOOSE id \in DOMAIN MODELS : MODELS[id] = target
        ELSE "ValueError"

\* self.default_model of agent = ToolUseAgent()
default_model == CanonicalChatModel(DEFAULT_CHAT_MODEL)

\* the model arguments the endpoints let through: none, an id, a provider
\* model name
RequestedModels == {None} \cup DOMAIN MODELS \cup {MODELS[id] : id \in DOMAIN MODELS}

\* the threads that call agent.run
Runs == {1, 2}

\* the locals of a run() that has just been called with the model
RunLocals(model) ==
    [pc |-> "start", model |-> model, active_model |-> None, turn |-> 0,
     tool_calls |-> FALSE, reflection_attempts |-> 0, llm_calls |-> <<>>]

\* a call of the gateway with its model argument
LlmCall(function, model) == [function |-> function, model |-> model]

\* agent = ToolUseAgent(): the reflection agent has the default model, and
\* the two runs are about to start with different models
InitShared ==
    /\ InitRun
    /\ max_turns \in 1..MaxSharedTurns
    /\ max_reflection_rounds = 1
    /\ event_handler = NoHandler
    /\ ParsingIdle
    /\ StreamingIdle
    /\ CompactionIdle
    /\ RecordingIdle
    /\ GatewayIdle
    /\ reflection_agent_model = default_model
    /\ runs \in {<<RunLocals(first), RunLocals(second)>> :
                    first \in RequestedModels, second \in RequestedModels}
    /\ CanonicalChatModel(runs[1].model) # CanonicalChatModel(runs[2].model)

single_run == << pc, config, turn, messages, tool_calls, reflections, answer,
                 reflection_attempts, turn_state, events, returned, raised,
                 requests, evaluations, reflection_input, chunks_seen >>

\* active_model = canonical_chat_model(model or self.default_model)
ResolveModel(run) ==
    /\ runs[run].pc = "start"
    /\ runs' = [runs EXCEPT ![run].active_model =
                    CanonicalChatModel(IF runs[run].model # None
                                       THEN runs[run].model ELSE default_model),
                            ![run].pc = "compare"]
    /\ UNCHANGED << single_run, parsing, streaming, compaction, recording, gateway, reflection_agent_model >>

\* if self.reflection_agent.model != active_model
CompareModel(run) ==
    /\ runs[run].pc = "compare"
    /\ runs' = [runs EXCEPT ![run].pc =
                    IF reflection_agent_model # runs[run].active_model
                    THEN "assign" ELSE "loop"]
    /\ UNCHANGED << single_run, parsing, streaming, compaction, recording, gateway, reflection_agent_model >>

\* self.reflection_agent.model = active_model
AssignModel(run) ==
    /\ runs[run].pc = "assign"
    /\ reflection_agent_model' = runs[run].active_model
    /\ runs' = [runs EXCEPT ![run].pc = "loop"]
    /\ UNCHANGED << single_run, parsing, streaming, compaction, recording, gateway >>

\* one turn of the run: llm_chat(model=active_model), then the dispatch of
\* its tool calls, or its candidate answer on the way to the reflection or
\* out of run()
SharedTurn(run, calls_tools) ==
    LET locals == runs[run]
    IN  /\ locals.pc = "loop"
        /\ TurnsRemain(locals.turn, max_turns)
        /\ runs' = [runs EXCEPT
               ![run].llm_calls =
                   Append(locals.llm_calls, LlmCall("llm_chat", locals.active_model)),
               ![run].tool_calls = locals.tool_calls \/ calls_tools,
               ![run].turn = IF calls_tools THEN locals.turn + 1 ELSE locals.turn,
               ![run].pc =
                   IF calls_tools THEN "loop"
                   ELSE IF locals.tool_calls
                           /\ locals.reflection_attempts < max_reflection_rounds
                   THEN "reflect" ELSE "done"]
        /\ UNCHANGED << single_run, parsing, streaming, compaction, recording, gateway, reflection_agent_model >>

\* self.reflection_agent.evaluate(): llm_call(model=self.model), then the
\* verdict
SharedReflection(run, requires_more_context) ==
    LET locals == runs[run]
    IN  /\ locals.pc = "reflect"
        /\ runs' = [runs EXCEPT
               ![run].llm_calls =
                   Append(locals.llm_calls, LlmCall("llm_call", reflection_agent_model)),
               ![run].reflection_attempts = locals.reflection_attempts + 1,
               ![run].turn = IF requires_more_context
                                 /\ locals.reflection_attempts + 1 <= max_reflection_rounds
                             THEN locals.turn + 1 ELSE locals.turn,
               ![run].pc = IF requires_more_context
                               /\ locals.reflection_attempts + 1 <= max_reflection_rounds
                           THEN "loop" ELSE "done"]
        /\ UNCHANGED << single_run, parsing, streaming, compaction, recording, gateway, reflection_agent_model >>

\* range(self.max_turns) is exhausted
SharedLoopExhausted(run) ==
    /\ runs[run].pc = "loop"
    /\ ~TurnsRemain(runs[run].turn, max_turns)
    /\ runs' = [runs EXCEPT ![run].pc = "done"]
    /\ UNCHANGED << single_run, parsing, streaming, compaction, recording, gateway, reflection_agent_model >>

NextShared ==
    \/ \E run \in Runs : ResolveModel(run)
    \/ \E run \in Runs : CompareModel(run)
    \/ \E run \in Runs : AssignModel(run)
    \/ \E run \in Runs, calls_tools \in BOOLEAN : SharedTurn(run, calls_tools)
    \/ \E run \in Runs, requires_more_context \in BOOLEAN :
           SharedReflection(run, requires_more_context)
    \/ \E run \in Runs : SharedLoopExhausted(run)

SpecShared == InitShared /\ [][NextShared]_vars

(* ----------------------- the event stream of main.py --------------------- *)

\* _build_response(result): result.provider is read, which an AgentResult
\* does not have
BuildResponse(result) == [raises |-> "AttributeError"]

FinalResponseItem(response) == [type |-> "final_response", response |-> response]

ErrorItem == [type |-> "error", message |-> "Agent failed to generate a response."]

Sentinel == [type |-> "sentinel"]

\* what run_agent puts on the queue when agent.run is over: the response,
\* or the error item when run() or _build_response raised, then the sentinel
RunAgentTail ==
    IF pc # "done" THEN <<>>
    ELSE IF returned = <<>> THEN <<ErrorItem, Sentinel>>
    ELSE LET response == BuildResponse(returned[1])
         IN  IF response.raises # None THEN <<ErrorItem, Sentinel>>
             ELSE <<FinalResponseItem(response), Sentinel>>

\* the queue of _agent_event_stream from its first put on: handle_event puts
\* every event of the run
Queue == events \o RunAgentTail

\* what the run has done so far
Progress ==
    [requests |-> requests, evaluations |-> evaluations,
     executions |-> Len(tool_calls), events |-> Len(events)]

\* the generator has started the thread of run_agent on the shared agent
InitStream ==
    /\ InitRun
    /\ max_turns \in 1..MaxSharedTurns
    /\ max_reflection_rounds = 1
    /\ event_handler = Handler({})
    /\ ParsingIdle
    /\ SharingIdle
    /\ CompactionIdle
    /\ RecordingIdle
    /\ GatewayIdle
    /\ consumer = "reading"
    /\ delivered = 0
    /\ cancelled_at = <<>>

\* event = queue.get(); yield _encode_sse(event)
YieldEvent ==
    /\ consumer = "reading"
    /\ delivered < Len(Queue)
    /\ Queue[delivered + 1] # Sentinel
    /\ delivered' = delivered + 1
    /\ UNCHANGED << single_run, parsing, sharing, compaction, recording, gateway, consumer, cancelled_at >>

\* the sentinel ends the loop: yield _encode_sse({"type": "done"})
YieldDone ==
    /\ consumer = "reading"
    /\ delivered < Len(Queue)
    /\ Queue[delivered + 1] = Sentinel
    /\ delivered' = delivered + 1
    /\ consumer' = "finished"
    /\ UNCHANGED << single_run, parsing, sharing, compaction, recording, gateway, cancelled_at >>

\* the client disconnects or times out: the generator, suspended at a yield,
\* is closed; nothing in it reaches the thread of run_agent
Disconnect ==
    /\ consumer = "reading"
    /\ delivered >= 1
    /\ consumer' = "cancelled"
    /\ cancelled_at' = <<Progress>>
    /\ UNCHANGED << single_run, parsing, sharing, compaction, recording, gateway, delivered >>

NextStream ==
    \/ RunStart
    \/ RequestCompletion
    \/ RequestFails
    \/ LoopExhausted
    \/ \E chunk \in SinkChunks : ConsumeChunk(chunk)
    \/ StreamExhausted
    \/ StreamFails
    \/ TurnWithToolCalls
    \/ CandidateToReflection
    \/ CandidateIsFinal
    \/ SkipNamelessCall
    \/ \E output \in ToolOutputs : ExecuteToolCall(output)
    \/ \E output \in ToolOutputs : ToolCallRaises(output)
    \/ DispatchDone
    \/ \E reflection \in Verdicts : ReflectionRejects(reflection)
    \/ \E reflection \in Verdicts : ReflectionAccepts(reflection)
    \/ ReflectionFails
    \/ YieldEvent
    \/ YieldDone
    \/ Disconnect

SpecStream == InitStream /\ [][NextStream]_vars

(* --------------------------- history compaction -------------------------- *)
(* _build_history_context and what it calls.  A text whose token count      *)
(* matters is a sequence of words, each with the number of tokens the       *)
(* encoder makes of it; count_tokens adds them up and trim_to_tokens cuts    *)
(* inside a word.                                                            *)

\* the messages of a chat history
MaxHistory == 6

\* the calls of _build_history_context with one chat history
MaxInvocations == 2

SUMMARY_MIN_MESSAGE_COUNT == 6

SUMMARY_CHUNK_TOKEN_LIMIT == 4000

RECENT_CONTEXT_TOKEN_BUDGET == 20000

MAX_CONTEXT_TOKENS == 65536

\* int(MAX_CONTEXT_TOKENS * SUMMARY_TOKEN_RATIO), the ratio being 0.3
SUMMARY_TOKEN_LIMIT == (MAX_CONTEXT_TOKENS * 3) \div 10

SUMMARY_TOKEN_BUDGET == SUMMARY_TOKEN_LIMIT

Word(word, tokens) == [word |-> word, tokens |-> tokens]

Space == Word(" ", 1)

Newline == Word("\n", 1)

IsSpace(word) == word \in {Space, Newline}

\* count_tokens(text)
RECURSIVE CountTokens(_)
CountTokens(text) ==
    IF text = <<>> THEN 0 ELSE Head(text).tokens + CountTokens(Tail(text))

\* encoder.decode(tokens[:max_tokens])
RECURSIVE FirstTokens(_, _)
FirstTokens(text, max_tokens) ==
    IF text = <<>> \/ max_tokens = 0 THEN <<>>
    ELSE IF Head(text).tokens <= max_tokens
    THEN <<Head(text)>> \o FirstTokens(Tail(text), max_tokens - Head(text).tokens)
    ELSE <<Word(Head(text).word, max_tokens)>>

\* trim_to_tokens(text, max_tokens)
TrimToTokens(text, max_tokens) ==
    IF text = <<>> \/ max_tokens <= 0 THEN <<>>
    ELSE IF CountTokens(text) <= max_tokens THEN text
    ELSE FirstTokens(text, max_tokens)

\* text.lstrip()
RECURSIVE LStripWords(_)
LStripWords(text) ==
    IF text # <<>> /\ IsSpace(Head(text)) THEN LStripWords(Tail(text)) ELSE text

\* text.rstrip()
RECURSIVE RStripWords(_)
RStripWords(text) ==
    IF text # <<>> /\ IsSpace(Last(text))
    THEN RStripWords(SubSeq(text, 1, Len(text) - 1)) ELSE text

\* text.strip()
StripWords(text) == RStripWords(LStripWords(text))

\* separator.join(texts)
RECURSIVE Join(_, _)
Join(separator, texts) ==
    IF texts = <<>> THEN <<>>
    ELSE IF Len(texts) = 1 THEN texts[1]
    ELSE texts[1] \o separator \o Join(separator, Tail(texts))

\* the text chunks of a list content: item.get("text", "") of the dict items
\* of type "text", the falsy ones left out
RECURSIVE TextChunks(_)
TextChunks(items) ==
    IF items = <<>> THEN <<>>
    ELSE LET item == Head(items)
         IN  (IF item.is_dict /\ item.type = "text" /\ item.text # <<>>
              THEN <<item.text>> ELSE <<>>) \o TextChunks(Tail(items))

\* content_to_text(content)
ContentToText(content) ==
    CASE content.kind = "str" -> content.text
      [] content.kind = "list" -> StripWords(Join(<<Space>>, TextChunks(content.items)))
      [] OTHER -> <<>>

\* str.capitalize() of a role
Capitalize(role) ==
    CASE role = "system" -> "System"
      [] role = "user" -> "User"
      [] role = "assistant" -> "Assistant"
      [] OTHER -> role

\* f"{entry['role'].capitalize()}: {entry['content']}"
Line(entry) == <<Word(Capitalize(entry.role), 1), Word(": ", 1)>> \o entry.content

\* the first loop of _build_history_context
RECURSIVE Normalized(_)
Normalized(chat_history) ==
    IF chat_history = <<>> THEN <<>>
    ELSE LET message == Head(chat_history)
             content == StripWords(ContentToText(message.content))
         IN  (IF message.role \in {"system", "user", "assistant"} /\ content # <<>>
              THEN <<[role |-> message.role, content |-> content]>>
              ELSE <<>>) \o Normalized(Tail(chat_history))

\* the mutant of ChunksFrom: a chunk is closed when the next line would fill
\* it to the limit
RECURSIVE ChunksFromClosingAtLimit(_, _, _, _, _)
ChunksFromClosingAtLimit(entries, i, chunk_lines, chunks, chunk_token_limit) ==
    IF i > Len(entries)
    THEN IF chunk_lines # <<>>
         THEN Append(chunks, Join(<<Newline>>, chunk_lines)) ELSE chunks
    ELSE LET line == Line(entries[i])
             current_tokens == CountTokens(Join(<<>>, chunk_lines))
         IN  IF chunk_lines # <<>>
                /\ current_tokens + CountTokens(line) >= chunk_token_limit
             THEN ChunksFromClosingAtLimit(entries, i + 1, <<line>>,
                             Append(chunks, Join(<<Newline>>, chunk_lines)),
                             chunk_token_limit)
             ELSE ChunksFromClosingAtLimit(entries, i + 1, Append(chunk_lines, line),
                             chunks, chunk_token_limit)

\* _transcript_chunks from the entry at position i on, chunk_lines being the
\* lines of the chunk under way and chunks what has been yielded
RECURSIVE ChunksFrom(_, _, _, _, _)
ChunksFrom(entries, i, chunk_lines, chunks, chunk_token_limit) ==
    IF i > Len(entries)
    THEN IF chunk_lines # <<>>
         THEN Append(chunks, Join(<<Newline>>, chunk_lines)) ELSE chunks
    ELSE LET line == Line(entries[i])
             current_tokens == CountTokens(Join(<<>>, chunk_lines))
         IN  IF chunk_lines # <<>>
                /\ current_tokens + CountTokens(line) > chunk_token_limit
             THEN ChunksFrom(entries, i + 1, <<line>>,
                             Append(chunks, Join(<<Newline>>, chunk_lines)),
                             chunk_token_limit)
             ELSE ChunksFrom(entries, i + 1, Append(chunk_lines, line), chunks,
                             chunk_token_limit)

\* _transcript_chunks(messages, chunk_token_limit)
TranscriptChunks(entries, chunk_token_limit) ==
    ChunksFrom(entries, 1, <<>>, <<>>, chunk_token_limit)

\* what the gateway answers to a summarizer request: a function of the
\* request alone.  The summarizers: one that answers in a few words, one
\* that answers with white space, one that answers at length, and one whose
\* request fails.
Summarizers == {"concise", "blank", "verbose", "fails"}

\* llm_call(system_prompt, query) under the summarizer prompt
LlmSummary(summarizer, has_existing, query) ==
    CASE summarizer = "concise" ->
             [raises |-> None,
              text |-> <<Space, Word(IF has_existing THEN "updated" ELSE "new", 1),
                         Word(ToString(CountTokens(query)), 1), Newline>>]
      [] summarizer = "blank" -> [raises |-> None, text |-> <<Space>>]
      [] summarizer = "verbose" ->
             [raises |-> None,
              text |-> <<Word("long", SUMMARY_TOKEN_LIMIT - 5), Space, Space,
                         Word(ToString(CountTokens(query)), 20)>>]
      [] summarizer = "fails" -> [raises |-> "GatewayError", text |-> <<>>]
      [] summarizer = "fails_later" ->
             IF has_existing THEN [raises |-> "GatewayError", text |-> <<>>]
             ELSE [raises |-> None, text |-> <<Word("new", 1)>>]

\* conversation_summary_update(existing_summary, new_chunk, max_tokens)
ConversationSummaryUpdate(summarizer, existing_summary, new_chunk, max_tokens) ==
    LET has_existing == StripWords(existing_summary) # <<>>
        query == IF has_existing
                 THEN <<Word("Existing summary:", 3), Newline>>
                      \o StripWords(existing_summary)
                      \o <<Newline, Newline, Word("New conversation segment:", 4),
                           Newline>>
                      \o StripWords(new_chunk)
                 ELSE StripWords(new_chunk)
        answered == LlmSummary(summarizer, has_existing, query)
        updated == StripWords(answered.text)
        trimmed == RStripWords(TrimToTokens(updated, max_tokens - 10))
    IN  IF answered.raises # None THEN [raises |-> answered.raises, summary |-> <<>>]
        ELSE [raises |-> None,
              summary |->
                  IF CountTokens(updated) > max_tokens
                  THEN IF CountTokens(trimmed) >= max_tokens
                       THEN RStripWords(TrimToTokens(trimmed, max_tokens - 1))
                       ELSE trimmed
                  ELSE updated]

\* a call of conversation_summary_update
SummaryCall(existing_summary, new_chunk) ==
    [existing_summary |-> existing_summary, new_chunk |-> new_chunk]

\* the mutant of SummaryFrom: a failure leaves the summary of the chunks
\* before it in place
RECURSIVE SummaryFromKeepingPartial(_, _, _, _, _)
SummaryFromKeepingPartial(summarizer, chunks, i, summary, calls) ==
    IF i > Len(chunks) THEN [summary |-> summary, calls |-> calls]
    ELSE LET update == ConversationSummaryUpdate(summarizer, summary, chunks[i],
                                                 SUMMARY_TOKEN_BUDGET)
             made == Append(calls, SummaryCall(summary, chunks[i]))
         IN  IF update.raises # None
             THEN [summary |-> summary, calls |-> made]
             ELSE SummaryFromKeepingPartial(summarizer, chunks, i + 1,
                                            update.summary, made)

\* the summary loop from the chunk at position i on: the summary it ends
\* with, "" after the first failure, and the calls it has made
RECURSIVE SummaryFrom(_, _, _, _, _)
SummaryFrom(summarizer, chunks, i, summary, calls) ==
    IF i > Len(chunks) THEN [summary |-> summary, calls |-> calls]
    ELSE LET update == ConversationSummaryUpdate(summarizer, summary, chunks[i],
                                                 SUMMARY_TOKEN_BUDGET)
             made == Append(calls, SummaryCall(summary, chunks[i]))
         IN  IF update.raises # None
             THEN [summary |-> <<>>, calls |-> made]
             ELSE SummaryFrom(summarizer, chunks, i + 1, update.summary, made)

\* the mutant of SummaryWanted: any history is summarized
SummaryWantedAlways(normalized) == Len(normalized) >= 1

\* len(normalized) >= self.SUMMARY_MIN_MESSAGE_COUNT
SummaryWanted(normalized) == Len(normalized) >= SUMMARY_MIN_MESSAGE_COUNT

\* the mutant of WindowFull: the newest message is held to the budget too
WindowFullFromStart(recent_lines, running_tokens, line_tokens) ==
    running_tokens + line_tokens > RECENT_CONTEXT_TOKEN_BUDGET

\* recent_lines and running_tokens + line_tokens > self.RECENT_CONTEXT_TOKEN_BUDGET
WindowFull(recent_lines, running_tokens, line_tokens) ==
    /\ recent_lines # <<>>
    /\ running_tokens + line_tokens > RECENT_CONTEXT_TOKEN_BUDGET

\* the loop over reversed(normalized) from the entry at position i down,
\* recent_lines being the lines taken so far, newest first
RECURSIVE RecentFrom(_, _, _, _)
RecentFrom(normalized, i, recent_lines, running_tokens) ==
    IF i < 1 THEN recent_lines
    ELSE LET line == Line(normalized[i])
             line_tokens == CountTokens(line)
         IN  IF WindowFull(recent_lines, running_tokens, line_tokens)
             THEN recent_lines
             ELSE RecentFrom(normalized, i - 1, Append(recent_lines, line),
                             running_tokens + line_tokens)

\* recent_lines.reverse()
Reverse(seq) == [k \in 1..Len(seq) |-> seq[Len(seq) + 1 - k]]

\* the sections of the context and their joining
ContextOf(summary, recent_lines) ==
    LET sections ==
            (IF summary # <<>>
             THEN <<<<Word("Conversation summary:", 3), Newline>> \o StripWords(summary)>>
             ELSE <<>>)
            \o (IF recent_lines # <<>>
                THEN <<<<Word("Recent exchanges:", 3), Newline>>
                       \o Join(<<Newline>>, recent_lines)>>
                ELSE <<>>)
        context == StripWords(Join(<<Newline, Newline>>, sections))
    IN  IF context # <<>> THEN Append(context, Newline) ELSE context

\* _build_history_context(chat_history) with its locals and the calls of
\* conversation_summary_update it has made
BuildHistoryContext(summarizer, chat_history) ==
    LET normalized == Normalized(chat_history)
        summarized ==
            IF SummaryWanted(normalized)
            THEN SummaryFrom(summarizer,
                             TranscriptChunks(normalized, SUMMARY_CHUNK_TOKEN_LIMIT),
                             1, <<>>, <<>>)
            ELSE [summary |-> <<>>, calls |-> <<>>]
        recent_lines == Reverse(RecentFrom(normalized, Len(normalized), <<>>, 0))
    IN  IF normalized = <<>>
        THEN [raises |-> None, context |-> <<>>, normalized |-> normalized,
              summary |-> <<>>, recent_lines |-> <<>>, calls |-> <<>>]
        ELSE [raises |-> None, context |-> ContextOf(summarized.summary, recent_lines),
              normalized |-> normalized, summary |-> summarized.summary,
              recent_lines |-> recent_lines, calls |-> summarized.calls]

\* the messages of the chat histories: a short user message with white
\* space around it, a long assistant message whose content is a list of
\* parts, a user message that alone exceeds the recent-context budget, and
\* a tool message
HistoryMessages ==
    {[role |-> "user",
      content |-> [kind |-> "str", text |-> <<Space, Word("hi", 3), Newline>>]],
     [role |-> "assistant",
      content |-> [kind |-> "list",
                   items |-> <<[is_dict |-> TRUE, type |-> "image", text |-> <<>>],
                               [is_dict |-> TRUE, type |-> "text",
                                text |-> <<Space, Word("long", 12000)>>]>>]],
     [role |-> "user", content |-> [kind |-> "str", text |-> <<Word("huge", 25000)>>]],
     [role |-> "tool", content |-> [kind |-> "str", text |-> <<Word("out", 2)>>]]}

\* run() is about to be called with a chat history, the gateway answering
\* summarizer requests in one way
InitHistory ==
    /\ IdleRun
    /\ ParsingIdle
    /\ SharingIdle
    /\ StreamingIdle
    /\ RecordingIdle
    /\ GatewayIdle
    /\ summarizing \in Summarizers
    /\ given_history \in SeqsUpTo(HistoryMessages, MaxHistory)
    /\ contexts = <<>>

\* the mutant of CompactHistory: a call drops the oldest message from the
\* history it was given
CompactHistoryConsuming ==
    /\ Len(contexts) < MaxInvocations
    /\ contexts' = Append(contexts,
                          BuildHistoryContext(summarizing,
                                              SubSeq(given_history, Len(contexts) + 1,
                                                     Len(given_history))))
    /\ UNCHANGED << single_run, parsing, sharing, streaming, recording, gateway, summarizing, given_history >>

\* history_context = self._build_history_context(chat_history or [])
CompactHistory ==
    /\ Len(contexts) < MaxInvocations
    /\ contexts' = Append(contexts, BuildHistoryContext(summarizing, given_history))
    /\ UNCHANGED << single_run, parsing, sharing, streaming, recording, gateway, summarizing, given_history >>

NextHistory == CompactHistory

SpecHistory == InitHistory /\ [][NextHistory]_vars

(* ------------------------- transcript chunking -------------------------- *)

\* The messages of these chat histories: a short user message; an assistant
\* message whose line, together with the line of one short message, fills a
\* transcript chunk to the token; a user message whose line alone exceeds the
\* budget of a chunk.
TranscriptMessages ==
    {[role |-> "user",
      content |-> [kind |-> "str", text |-> <<Space, Word("hi", 3), Newline>>]],
     [role |-> "assistant",
      content |-> [kind |-> "str",
                   text |-> <<Word("fits", SUMMARY_CHUNK_TOKEN_LIMIT - 7)>>]],
     [role |-> "user", content |-> [kind |-> "str", text |-> <<Word("long", 12000)>>]]}

\* how the gateway answers the summarizer requests of these runs: as above,
\* or with a summary to a request that brings none and with a failure to a
\* request that brings one
TranscriptSummarizers == Summarizers \cup {"fails_later"}

\* run() is about to be called with a chat history of these messages
InitChunking ==
    /\ IdleRun
    /\ ParsingIdle
    /\ SharingIdle
    /\ StreamingIdle
    /\ RecordingIdle
    /\ GatewayIdle
    /\ summarizing \in TranscriptSummarizers
    /\ given_history \in SeqsUpTo(TranscriptMessages, MaxHistory)
    /\ contexts = <<>>

NextChunking == CompactHistory

SpecChunking == InitChunking /\ [][NextChunking]_vars

(* ------------------------ the output of a tool call ---------------------- *)

\* a tool output of one character more than a preview holds
LongOutput == [k \in 1..PREVIEW_LIMIT + 1 |-> "x"]

\* what a search returns: a short text, or a long one
SearchOutputs == {<<"OUTPUT">>, LongOutput}

\* a fragment that supplies the whole argument text of its call
ToolDeltaWithArguments(index, id, name, arguments) ==
    [index |-> index, id |-> id, name |-> name, arguments |-> arguments]

\* the chunks of these runs: those of SinkChunks, and a fragment calling
\* web_search with a query
SearchChunks ==
    SinkChunks
    \cup {Chunk(NoContent,
                <<ToolDeltaWithArguments(0, "call_x", "web_search",
                                         <<"{", "\"query\":", "\"x\"", "}">>)>>,
                None)}

\* a run of the agent of main.py
InitSearch ==
    /\ InitRun
    /\ max_turns \in 1..MaxSharedTurns
    /\ max_reflection_rounds = 1
    /\ event_handler = Handler({})
    /\ ApartIdle

NextSearch ==
    \/ RunStart
    \/ RequestCompletion
    \/ RequestFails
    \/ LoopExhausted
    \/ \E chunk \in SearchChunks : ConsumeChunk(chunk)
    \/ StreamExhausted
    \/ StreamFails
    \/ TurnWithToolCalls
    \/ CandidateToReflection
    \/ CandidateIsFinal
    \/ SkipNamelessCall
    \/ \E output \in SearchOutputs : ExecuteToolCall(output)
    \/ \E output \in SearchOutputs : ToolCallRaises(output)
    \/ DispatchDone
    \/ \E reflection \in Verdicts : ReflectionRejects(reflection)
    \/ \E reflection \in Verdicts : ReflectionAccepts(reflection)
    \/ ReflectionFails

SpecSearch == InitSearch /\ [][NextSearch]_vars

(* ---------------------- the fragments of one turn ----------------------- *)

\* what a fragment supplies besides its index: an id or none, a name or
\* none, argument text or none
Supplies ==
    {[id |-> None, name |-> None, arguments |-> <<>>],
     [id |-> None, name |-> "echo", arguments |-> <<>>],
     [id |-> None, name |-> None, arguments |-> <<"{">>],
     [id |-> "call_x", name |-> None, arguments |-> <<"}">>],
     [id |-> "call_x", name |-> "echo", arguments |-> <<>>],
     [id |-> "call_y", name |-> "current_time_utc", arguments |-> <<"{">>]}

\* the chunks of the turn: one tool-call fragment each
FragmentChunks ==
    {Chunk(NoContent,
           <<ToolDeltaWithArguments(index, supply.id, supply.name, supply.arguments)>>,
           None) :
        index \in Indices, supply \in Supplies}

\* a run of one turn without reflection
InitFragments ==
    /\ InitRun
    /\ max_turns = 1
    /\ max_reflection_rounds = 0
    /\ event_handler = Handler({})
    /\ ParsingIdle
    /\ BesidesIdle

\* one iteration of "for chunk in stream", the fragments of the chunk kept
ConsumeFragments(chunk) ==
    /\ FoldChunk(chunk)
    /\ fragments' = fragments \o chunk.tool_calls
    /\ UNCHANGED << parsing, sharing, streaming, compaction, consumed, gateway >>

NextFragments ==
    \/ RunStart
    \/ RequestCompletion
    \/ RequestFails
    \/ LoopExhausted
    \/ \E chunk \in FragmentChunks : ConsumeFragments(chunk)
    \/ StreamExhausted
    \/ StreamFails
    \/ TurnWithToolCalls
    \/ CandidateIsFinal
    \/ SkipNamelessCall
    \/ \E output \in ToolOutputs : ExecuteToolCall(output)
    \/ DispatchDone

SpecFragments == InitFragments /\ [][NextFragments]_vars

(* ----------------------- the chunks of the streams ---------------------- *)

\* a chunk whose choice has no delta: "if delta is None: continue"
ChunkWithoutDelta(finish_reason) ==
    [has_delta |-> FALSE, role |-> None, content |-> NoContent,
     tool_calls |-> <<>>, finish_reason |-> finish_reason]

\* a part of a list-valued content piece: a mapping with its "type" and the
\* str() of its "text", or something else with its str()
Part(is_dict, type, text) == [is_dict |-> is_dict, type |-> type, text |-> text]

ListContent(parts) == [kind |-> "list", parts |-> parts]

\* The chunks of these runs.  Content: plain text; a list of two text parts
\* around an image part; a list with a part of another type that has a text;
\* a list with a part that is no mapping.  A tool-call fragment.  Finish
\* markers: stop on a chunk with content, tool_calls on a chunk with a
\* fragment, length, and stop on a chunk without a delta.
StreamedChunks ==
    {Chunk([kind |-> "str", text |-> <<"a">>], <<>>, None),
     Chunk(ListContent(<<Part(TRUE, "text", <<"b">>),
                         Part(TRUE, "image_url", <<>>),
                         Part(TRUE, "text", <<"c">>)>>), <<>>, None),
     Chunk(ListContent(<<Part(TRUE, "refusal", <<"d">>)>>), <<>>, None),
     Chunk(ListContent(<<Part(FALSE, None, <<"e">>)>>), <<>>, None),
     Chunk(NoContent, <<ToolDelta(0, None, "echo")>>, None),
     Chunk([kind |-> "str", text |-> <<"a">>], <<>>, "stop"),
     Chunk(NoContent, <<ToolDelta(0, "call_x", "echo")>>, "tool_calls"),
     Chunk(NoContent, <<>>, "length"),
     ChunkWithoutDelta("stop")}

\* a run of the agent of main.py
InitAggregation ==
    /\ InitRun
    /\ max_turns \in 1..MaxSharedTurns
    /\ max_reflection_rounds = 1
    /\ event_handler = Handler({})
    /\ ApartIdle

\* one iteration of "for chunk in stream", the chunk kept with the turn it
\* belongs to and the number of events emitted when it is through
ConsumeStreamed(chunk) ==
    /\ FoldChunk(chunk)
    /\ consumed' = Append(consumed,
                          [turn |-> turn, chunk |-> chunk, emitted |-> Len(events')])
    /\ UNCHANGED << parsing, sharing, streaming, compaction, fragments, gateway >>

NextAggregation ==
    \/ RunStart
    \/ RequestCompletion
    \/ RequestFails
    \/ LoopExhausted
    \/ \E chunk \in StreamedChunks : ConsumeStreamed(chunk)
    \/ StreamExhausted
    \/ StreamFails
    \/ TurnWithToolCalls
    \/ CandidateToReflection
    \/ CandidateIsFinal
    \/ \E output \in ToolOutputs : ExecuteToolCall(output)
    \/ DispatchDone
    \/ \E reflection \in Verdicts : ReflectionRejects(reflection)
    \/ \E reflection \in Verdicts : ReflectionAccepts(reflection)
    \/ ReflectionFails

SpecAggregation == InitAggregation /\ [][NextAggregation]_vars

(* -------------------- a gateway that may not stream --------------------- *)

\* a tool call of a complete message
CompleteToolCall(id, name, arguments) ==
    [id |-> id, type |-> "function",
     function |-> [name |-> name, arguments |-> arguments]]

\* response.choices[0].message of a complete response
CompleteMessage(content, calls) ==
    IF calls # <<>>
    THEN [role |-> "assistant", content |-> content, tool_calls |-> calls]
    ELSE [role |-> "assistant", content |-> content]

\* the complete messages the gateway answers with: an answer, a tool call,
\* and both
CompleteMessages ==
    {CompleteMessage(<<"a">>, <<>>),
     CompleteMessage(<<>>, <<CompleteToolCall("call_x", "echo", <<"{}">>)>>),
     CompleteMessage(<<"a">>, <<CompleteToolCall("call_x", "echo", <<"{}">>)>>)}

\* a run of the agent of main.py with a model that streams or does not
InitFallback ==
    /\ InitRun
    /\ max_turns \in 1..MaxSharedTurns
    /\ max_reflection_rounds = 1
    /\ event_handler = Handler({})
    /\ ParsingIdle
    /\ SharingIdle
    /\ StreamingIdle
    /\ CompactionIdle
    /\ RecordingIdle
    /\ streaming_enabled \in BOOLEAN
    /\ completions = <<>>

\* llm_chat(..., stream=True) for a model that streams: the stream
StreamedRequest == streaming_enabled /\ RequestCompletion

\* llm_chat(..., stream=True) for a model that does not stream: stream is
\* set to False and the complete response is what run() calls stream
AnsweredRequest(message) ==
    /\ ~streaming_enabled
    /\ pc = "loop"
    /\ TurnsRemain(turn, max_turns)
    /\ requests' = requests + 1
    /\ completions' = Append(completions, [turn |-> turn, message |-> message])
    /\ assistant_content' = <<>>
    /\ assistant_role' = "assistant"
    /\ tool_call_states' = <<>>
    /\ pc' = "stream"
    /\ UNCHANGED << config, parsing, sharing, streaming, compaction, recording,
                    streaming_enabled, reflection_input, turn, messages, tool_calls,
                    reflections, answer, reflection_attempts, sorted_tool_states,
                    cursor, events, returned, raised, evaluations, chunks_seen >>

\* one iteration of "for chunk in stream" over a stream
StreamedChunk(chunk) == streaming_enabled /\ ConsumeChunk(chunk)

\* "for chunk in stream" over a stream that ends without a finish marker
StreamedThrough == streaming_enabled /\ StreamExhausted

\* "for chunk in stream" over a complete response: what the iteration gives
\* are the fields of the response object, none of which has an attribute
\* choices, so every one is skipped
CompletionIterated == ~streaming_enabled /\ StreamExhausted

\* reading the next chunk of a stream raises
StreamedFails == streaming_enabled /\ StreamFails

NextFallback ==
    \/ RunStart
    \/ StreamedRequest
    \/ \E message \in CompleteMessages : AnsweredRequest(message)
    \/ RequestFails
    \/ LoopExhausted
    \/ \E chunk \in SinkChunks : StreamedChunk(chunk)
    \/ StreamedThrough
    \/ CompletionIterated
    \/ StreamedFails
    \/ TurnWithToolCalls
    \/ CandidateToReflection
    \/ CandidateIsFinal
    \/ SkipNamelessCall
    \/ \E output \in ToolOutputs : ExecuteToolCall(output)
    \/ \E output \in ToolOutputs : ToolCallRaises(output)
    \/ DispatchDone
    \/ \E reflection \in Verdicts : ReflectionRejects(reflection)
    \/ \E reflection \in Verdicts : ReflectionAccepts(reflection)
    \/ ReflectionFails

SpecFallback == InitFallback /\ [][NextFallback]_vars

(* ----------------------- the model of every call ------------------------ *)

\* the chat histories of these runs: short messages and messages of which
\* each makes a transcript chunk of its own
ModelledHistories ==
    SeqsUpTo({[role |-> "user",
               content |-> [kind |-> "str", text |-> <<Word("hi", 3)>>]],
              [role |-> "user",
               content |-> [kind |-> "str", text |-> <<Word("long", 12000)>>]]},
             MaxHistory)

\* the one thread that calls agent.run
ModelledRuns == {1}

\* agent = ToolUseAgent(), and one run about to start with a model and a
\* chat history
InitModels ==
    /\ InitRun
    /\ max_turns \in 1..MaxSharedTurns
    /\ max_reflection_rounds = 1
    /\ event_handler = NoHandler
    /\ ParsingIdle
    /\ StreamingIdle
    /\ RecordingIdle
    /\ GatewayIdle
    /\ reflection_agent_model = default_model
    /\ runs \in {<<RunLocals(model)>> : model \in RequestedModels}
    /\ summarizing \in {"concise", "fails"}
    /\ given_history \in ModelledHistories
    /\ contexts = <<>>

\* the calls of llm_call that the calls of conversation_summary_update make:
\* llm_call(..., model=DEFAULT_CHAT_MODEL, stream=False)
SummaryLlmCalls(calls) ==
    [k \in 1..Len(calls) |-> LlmCall("conversation_summary_update", DEFAULT_CHAT_MODEL)]

\* history_context = self._build_history_context(chat_history or []), once
\* the model of the run is resolved and before the first turn
SummarizeHistory(run) ==
    LET locals == runs[run]
        built == BuildHistoryContext(summarizing, given_history)
    IN  /\ locals.pc = "loop"
        /\ contexts = <<>>
        /\ contexts' = <<built>>
        /\ runs' = [runs EXCEPT
               ![run].llm_calls = locals.llm_calls \o SummaryLlmCalls(built.calls)]
        /\ UNCHANGED << single_run, parsing, streaming, recording, gateway,
                        reflection_agent_model, summarizing, given_history >>

\* a turn of the run, the history context being built
TurnWithContext(run, calls_tools) ==
    /\ contexts # <<>>
    /\ SharedTurn(run, calls_tools)

NextModels ==
    \/ \E run \in ModelledRuns : ResolveModel(run)
    \/ \E run \in ModelledRuns : CompareModel(run)
    \/ \E run \in ModelledRuns : AssignModel(run)
    \/ \E run \in ModelledRuns : SummarizeHistory(run)
    \/ \E run \in ModelledRuns, calls_tools \in BOOLEAN : TurnWithContext(run, calls_tools)
    \/ \E run \in ModelledRuns, requires_more_context \in BOOLEAN :
           SharedReflection(run, requires_more_context)
    \/ \E run \in ModelledRuns : SharedLoopExhausted(run)

SpecModels == InitModels /\ [][NextModels]_vars

(* ------------------------------- claims -------------------------------- *)

\* positions of the assistant messages, one per turn that got that far
AssistantPositions == {k \in 1..Len(messages) : messages[k].role = "assistant"}

IsToolFree(message) == message.role = "assistant" /\ ~HasToolCalls(message)

FinalEvents == {k \in 1..Len(events) :
                    events[k].type = "answer" /\ events[k].status = "final"}

\* C1: the number of chat-completion requests the turn loop has issued never
\* exceeds the configured max_turns.
C1_RequestsWithinMaxTurns == requests <= max_turns

\* a run that has used its whole budget of at least two turns
C1_Witness == pc = "done" /\ max_turns >= 2 /\ requests = max_turns

\* C2: the Reflection Gate is invoked at most max_reflection_rounds times;
\* every invocation that returns a record, whatever its verdict, has
\* incremented reflection_attempts by one and appended one ReflectionRecord
\* (the only invocation not counted is one that raised and ended the run).
C2_ReflectionsWithinRounds ==
    /\ evaluations <= max_reflection_rounds
    /\ reflection_attempts = Len(reflections)
    /\ evaluations # reflection_attempts =>
          /\ evaluations = reflection_attempts + 1
          /\ pc = "done"
          /\ raised = "GatewayError"

\* max_reflection_rounds = 1, the one reflection asked for more, and a later
\* candidate answer ended the run although tools had been called
C2_Witness ==
    /\ max_reflection_rounds = 1
    /\ evaluations = 1
    /\ Len(reflections) = 1
    /\ reflections[1].requires_more_context
    /\ pc = "done"
    /\ returned # <<>>
    /\ turn >= 2
    /\ IsToolFree(Last(messages))

\* C3: when the turn loop has consumed all max_turns turns without breaking
\* (every turn carried tool calls or had its candidate rejected by
\* reflection), run() raises and returns no AgentResult.
C3_ExhaustedRunFails ==
    (pc = "done" /\ turn = max_turns) =>
        (raised = "RuntimeError" /\ returned = <<>>)

\* C4: when every one of the max_turns turns yields an assistant message
\* with tool calls, the run raises after exactly max_turns requests, returns
\* no AgentResult and emits no answer/final event.
AllTurnsCallTools ==
    /\ Cardinality(AssistantPositions) = max_turns
    /\ \A k \in AssistantPositions : HasToolCalls(messages[k])

C4_ToolCallsOnlyRunFails ==
    AllTurnsCallTools =>
        /\ requests = max_turns
        /\ returned = <<>>
        /\ FinalEvents = {}
        /\ pc = "done" => raised # None

\* three turns, each with a tool call, and the loop then exhausted
C4_Witness ==
    /\ AllTurnsCallTools
    /\ max_turns = 3
    /\ pc = "done"
    /\ raised = "RuntimeError"

\* the position after the turn that appended the assistant message at k
TurnEnd(k) ==
    IF \E j \in AssistantPositions : j > k
    THEN (CHOOSE j \in AssistantPositions :
              j > k /\ \A i \in AssistantPositions : i > k => j <= i) - 1
    ELSE Len(messages)

IsToolMessage(message) == message.role = "tool"

RECURSIVE ToolCallIds(_)
ToolCallIds(tool_messages) ==
    IF tool_messages = <<>> THEN <<>>
    ELSE <<Head(tool_messages).tool_call_id>> \o ToolCallIds(Tail(tool_messages))

\* the tool_call_ids of the tool-role messages appended in the turn of the
\* assistant message at k, in order
ToolIdsAfter(k) ==
    ToolCallIds(SelectSeq(SubSeq(messages, k + 1, TurnEnd(k)), IsToolMessage))

RECURSIVE NamedCallIds(_)
NamedCallIds(calls) ==
    IF calls = <<>> THEN <<>>
    ELSE (IF Head(calls).function.name # "" THEN <<Head(calls).id>> ELSE <<>>)
         \o NamedCallIds(Tail(calls))

\* the assistant messages with tool calls after which the next completion
\* request has been issued
DispatchedPositions ==
    {k \in AssistantPositions :
        /\ HasToolCalls(messages[k])
        /\ \/ \E j \in AssistantPositions : j > k
           \/ pc \in {"stream", "aggregated"}}

\* C5 as stated: by the next completion request every tool call listed in an
\* assistant message has exactly one tool-role message with its id.
C5_OneToolMessagePerListedCall ==
    \A k \in DispatchedPositions :
        \A n \in 1..Len(messages[k].tool_calls) :
            Cardinality({j \in (k + 1)..TurnEnd(k) :
                            /\ IsToolMessage(messages[j])
                            /\ messages[j].tool_call_id = messages[k].tool_calls[n].id})
                = 1

\* C5 amended: by the next completion request the tool-role messages of a
\* turn are, in order, one per listed tool call with a non-empty name, each
\* carrying that call's id; a listed call with an empty name has none.
C5_OneToolMessagePerNamedCall ==
    \A k \in DispatchedPositions :
        ToolIdsAfter(k) = NamedCallIds(messages[k].tool_calls)

\* a dispatched turn that listed a call without a name and a named call
C5_Witness ==
    \E k \in DispatchedPositions :
        /\ \E n \in 1..Len(messages[k].tool_calls) :
              messages[k].tool_calls[n].function.name = ""
        /\ \E n \in 1..Len(messages[k].tool_calls) :
              messages[k].tool_calls[n].function.name # ""

\* C6: the ids of the tool calls of one assistant message are pairwise
\* distinct.
C6_ToolCallIdsDistinct ==
    \A k \in AssistantPositions :
        HasToolCalls(messages[k]) =>
            \A m, n \in 1..Len(messages[k].tool_calls) :
                m # n => messages[k].tool_calls[m].id # messages[k].tool_calls[n].id

\* the step appends the turn's assistant message
AppendsAssistantMessage ==
    /\ Len(messages') = Len(messages) + 1
    /\ Last(messages').role = "assistant"

\* C7: a turn's assistant message is handled in one of two ways.  With tool
\* calls, its content is not taken as the answer, the dispatch loop runs and
\* leaves only for the next turn (or by raising), and reflection is not
\* consulted.  Without tool calls, its content becomes the candidate answer
\* and no tool is dispatched.
C7_ToolCallsOrAnswer ==
    /\ [][AppendsAssistantMessage =>
            IF HasToolCalls(Last(messages'))
            THEN /\ answer' = answer
                 /\ pc' = "dispatch"
                 /\ returned' = <<>>
                 /\ evaluations' = evaluations
            ELSE /\ answer' = <<Last(messages').content>>
                 /\ pc' \in {"reflect", "done"}
                 /\ tool_calls' = tool_calls]_vars
    /\ [][pc = "dispatch" =>
            /\ answer' = answer
            /\ evaluations' = evaluations
            /\ returned' = <<>>
            /\ \/ pc' = "dispatch"
               \/ pc' = "loop" /\ turn' = turn + 1
               \/ pc' = "done" /\ raised' # None]_vars
    /\ [][tool_calls' # tool_calls => pc = "dispatch"]_vars

\* a turn whose message had content and tool calls has executed a tool and
\* gone on to the next turn
C7_Witness ==
    /\ pc = "loop"
    /\ turn >= 1
    /\ HasToolCalls(Last(SelectSeq(messages, LAMBDA m : m.role = "assistant")))
    /\ Last(SelectSeq(messages, LAMBDA m : m.role = "assistant")).content # <<>>
    /\ tool_calls # <<>>

RECURSIVE NamedStateIds(_)
NamedStateIds(states) ==
    IF states = <<>> THEN <<>>
    ELSE (IF Head(states).name # None THEN <<Head(states).id>> ELSE <<>>)
         \o NamedStateIds(Tail(states))

RECURSIVE NamedStateNames(_)
NamedStateNames(states) ==
    IF states = <<>> THEN <<>>
    ELSE (IF Head(states).name # None THEN <<Head(states).name>> ELSE <<>>)
         \o NamedStateNames(Tail(states))

RECURSIVE RecordNames(_)
RecordNames(records) ==
    IF records = <<>> THEN <<>>
    ELSE <<Head(records).name>> \o RecordNames(Tail(records))

\* the position of the assistant message of the latest turn
LastAssistantPosition ==
    CHOOSE k \in AssistantPositions : \A j \in AssistantPositions : j <= k

\* the last count elements of seq
Suffix(seq, count) == SubSeq(seq, Len(seq) - count + 1, Len(seq))

\* C8: in the dispatch loop the calls are taken one at a time in strictly
\* ascending index order: the tool-role messages and the ToolCallRecords of
\* the turn so far are those of the named calls below the loop's position,
\* in index order, whatever the order in which the indices arrived.
C8_DispatchInIndexOrder ==
    pc = "dispatch" =>
        LET handled == SubSeq(sorted_tool_states, 1, cursor - 1)
        IN  /\ \A m, n \in 1..Len(sorted_tool_states) :
                  m < n => sorted_tool_states[m].index < sorted_tool_states[n].index
            /\ {sorted_tool_states[n] : n \in 1..Len(sorted_tool_states)}
                  = {tool_call_states[n] : n \in 1..Len(tool_call_states)}
            /\ ToolIdsAfter(LastAssistantPosition) = NamedStateIds(handled)
            /\ Len(tool_calls) >= Len(NamedStateNames(handled))
            /\ RecordNames(Suffix(tool_calls, Len(NamedStateNames(handled))))
                  = NamedStateNames(handled)

\* index 1 arrived before index 0, both named, and both have been executed
C8_Witness ==
    /\ pc = "dispatch"
    /\ cursor = 3
    /\ Len(tool_call_states) = 2
    /\ tool_call_states[1].index = 1
    /\ tool_call_states[1].name # None
    /\ tool_call_states[2].name # None
    /\ Len(tool_calls) = 2

\* C9: the Reflection Gate is invoked on a turn if and only if the turn's
\* assistant message carries no tool calls, at least one tool call has been
\* executed earlier in the run, and fewer than max_reflection_rounds
\* invocations have been made; it is invoked nowhere else.
C9_ReflectionInvokedIff ==
    /\ [][AppendsAssistantMessage =>
            (pc' = "reflect" <=>
                /\ ~HasToolCalls(Last(messages'))
                /\ tool_calls # <<>>
                /\ evaluations < max_reflection_rounds)]_vars
    /\ [][(pc = "reflect") <=> (evaluations' = evaluations + 1)]_vars
    /\ [][pc' = "reflect" => AppendsAssistantMessage]_vars

\* reflection is about to be invoked for the second time in a run
C9_Witness ==
    /\ pc = "reflect"
    /\ evaluations = 1
    /\ max_reflection_rounds = 2

\* the latest turn's message has no tool calls, and reflection was not
\* invoked on it or has returned a record that does not ask for more
AnswerStands ==
    /\ messages # <<>>
    /\ IsToolFree(Last(messages))
    /\ pc # "reflect"
    /\ evaluations = reflection_attempts

\* C10: when a turn's message has no tool calls and reflection is not
\* invoked on it or returns requires_more_context = false, the run ends at
\* that turn and returns an AgentResult whose answer is that turn's content.
\* A first turn without tool calls ends the run after 1 request with no
\* ToolCallRecords and no ReflectionRecords; one turn with one executed tool
\* call followed by an accepted answer ends it after 2 requests with 1
\* ToolCallRecord and 1 ReflectionRecord.
C10_AnswerEndsRun ==
    /\ [](AnswerStands =>
            /\ pc = "done"
            /\ raised = None
            /\ Len(returned) = 1
            /\ returned[1].answer = Last(messages).content
            /\ returned[1].tool_calls = tool_calls
            /\ returned[1].reflections = reflections
            /\ requests = turn + 1)
    /\ []((Len(messages) >= 3 /\ IsToolFree(messages[3])) =>
            /\ pc = "done"
            /\ requests = 1
            /\ Len(returned) = 1
            /\ returned[1].tool_calls = <<>>
            /\ returned[1].reflections = <<>>)
    /\ []((/\ pc = "done"
           /\ Len(messages) = 5
           /\ HasToolCalls(messages[3])
           /\ IsToolMessage(messages[4])
           /\ IsToolFree(messages[5])
           /\ Len(reflections) = 1) =>
            /\ requests = 2
            /\ Len(returned) = 1
            /\ Len(returned[1].tool_calls) = 1
            /\ returned[1].reflections = reflections
            /\ ~reflections[1].requires_more_context)
    /\ [][(/\ pc = "reflect"
           /\ Len(reflections') = Len(reflections) + 1
           /\ ~Last(reflections').requires_more_context) =>
            /\ pc' = "done"
            /\ messages' = messages
            /\ requests' = requests
            /\ returned' = <<AgentResult(Last(messages).content, tool_calls,
                                         reflections')>>]_vars

\* a tool call, then an answer that reflection accepted: the run has ended
\* after two requests
C10_Witness ==
    /\ pc = "done"
    /\ requests = 2
    /\ Len(returned) = 1
    /\ Len(returned[1].tool_calls) = 1
    /\ Len(returned[1].reflections) = 1
    /\ returned[1].answer # <<>>
    /\ returned[1].answer = Last(messages).content

(* ---------------- the feedback of a rejecting reflection ---------------- *)

IsRejection(reflection) == reflection.requires_more_context

\* the records that asked for more, in the order of the evaluations
Rejections == SelectSeq(reflections, IsRejection)

\* the system messages after the conversation's first: the feedback messages
FeedbackPositions == {p \in 2..Len(messages) : messages[p].role = "system"}

\* the follow-up user messages: the user messages after the question
FollowUpPositions == {p \in 3..Len(messages) : messages[p].role = "user"}

\* the number of feedback messages up to position p
FeedbackRank(p) == Cardinality({q \in FeedbackPositions : q <= p})

Contains(text, piece) == \E i \in 1..Len(text) : text[i] = piece

\* C11: a reflection that asks for more puts, right after the candidate
\* assistant message, exactly one system feedback message carrying its reason
\* and its instruction, then exactly one follow-up user message if and only
\* if it suggested a query; the next message, if any, is the next turn's
\* assistant message, and the run has not ended at that turn: it ends with
\* the feedback as its last message only when no turn remained or the next
\* completion request failed.
C11_RejectionFeedsBack ==
    /\ Cardinality(FeedbackPositions) = Len(Rejections)
    /\ \A p \in FeedbackPositions :
          LET reflection == Rejections[FeedbackRank(p)]
              suggested == reflection.suggested_query \notin {None, ""}
              after == IF suggested THEN p + 2 ELSE p + 1
          IN  /\ IsToolFree(messages[p - 1])
              /\ Contains(messages[p].content, reflection.reason)
              /\ reflection.follow_up_instruction # "" =>
                     Contains(messages[p].content, reflection.follow_up_instruction)
              /\ suggested <=> (p + 1) \in FollowUpPositions
              /\ suggested => Contains(messages[p + 1].content,
                                       reflection.suggested_query)
              /\ after <= Len(messages) => messages[after].role = "assistant"
              /\ after > Len(messages) =>
                     \/ pc \in {"loop", "stream", "aggregated"}
                     \/ pc = "done" /\ raised = "GatewayError"
                     \/ pc = "done" /\ ~TurnsRemain(turn, max_turns)
    /\ \A p \in FollowUpPositions : (p - 1) \in FeedbackPositions

\* a reflection that suggested a query asked for more after a turn with a
\* tool call, and the next turn's assistant message follows its follow-up
C11_Witness ==
    /\ Len(Rejections) = 1
    /\ Rejections[1].suggested_query = "q"
    /\ Len(tool_calls) = 1
    /\ \E p \in FeedbackPositions :
          /\ p + 2 <= Len(messages)
          /\ messages[p + 1].role = "user"
          /\ messages[p + 2].role = "assistant"

(* ------------------------ the order of the events ----------------------- *)

Succeeded == pc = "done" /\ returned # <<>>

EventsOf(type, status) ==
    {k \in 1..Len(events) : events[k].type = type /\ events[k].status = status}

StartEvents == EventsOf("tool_call", "start")

FinishEvents == EventsOf("tool_call", "finish")

ReflectionEvents == {k \in 1..Len(events) : events[k].type = "reflection"}

Upto(positions, k) == {j \in positions : j <= k}

\* the tool calls started and not yet finished after the first k events
OpenCalls(k) ==
    Cardinality(Upto(StartEvents, k)) - Cardinality(Upto(FinishEvents, k))

\* C12 as stated: the events of a successful run are run/start, then items
\* each an answer/stream or a tool_call/start directly followed by its
\* tool_call/finish, then at most one reflection event, then answer/final.
C12_EventGrammar ==
    Succeeded =>
        /\ EventsOf("run", "start") = {1}
        /\ FinalEvents = {Len(events)}
        /\ \A k \in StartEvents :
              /\ (k + 1) \in FinishEvents
              /\ events[k + 1].call_id = events[k].call_id
        /\ \A k \in FinishEvents : (k - 1) \in StartEvents
        /\ Cardinality(ReflectionEvents) <= 1
        /\ \A k \in ReflectionEvents : k = Len(events) - 1

\* C12 amended: the events of a successful run begin with run/start and end
\* with the only answer/final; in between, every tool_call/finish follows a
\* tool_call/start that is not yet finished, every started call is finished
\* before a reflection event or the final event, and there are at most
\* max_reflection_rounds reflection events.
C12_EventOrder ==
    Succeeded =>
        /\ EventsOf("run", "start") = {1}
        /\ FinalEvents = {Len(events)}
        /\ \A k \in 1..Len(events) : OpenCalls(k) >= 0
        /\ \A k \in FinishEvents : OpenCalls(k - 1) > 0
        /\ \A k \in ReflectionEvents \cup FinalEvents : OpenCalls(k) = 0
        /\ Cardinality(ReflectionEvents) <= max_reflection_rounds

\* a successful run whose tool call started, streamed an answer fragment and
\* then finished, and whose reflection event is followed by an answer
\* fragment of a later turn
C12_Witness ==
    /\ Succeeded
    /\ \E k \in StartEvents :
          /\ events[k + 1].type = "answer"
          /\ (k + 2) \in FinishEvents
    /\ \E k \in ReflectionEvents :
          /\ events[k + 1].type = "answer"
          /\ events[k + 1].status = "stream"

\* C13: every invocation of the Reflection Gate that returned a verdict is
\* followed by exactly one reflection event carrying that verdict, whether
\* it asked for more or not: the reflection events are, in order, the events
\* of the recorded verdicts.
C13_OneEventPerVerdict ==
    /\ Cardinality(ReflectionEvents) = Len(reflections)
    /\ \A k \in ReflectionEvents :
          events[k] = ReflectionEvent(
                          reflections[Cardinality(Upto(ReflectionEvents, k))])

(* ------------------------- an unregistered tool ------------------------- *)

\* the positions of the turn's calls that name a tool that is not registered
UnregisteredAt ==
    {n \in 1..Len(sorted_tool_states) :
         sorted_tool_states[n].name \notin Registered \cup {None}}

ToolMessages == SelectSeq(messages, IsToolMessage)

\* C20: when a turn's assistant message names a tool that is not registered,
\* the dispatch loop does not get past that call and the ValueError of
\* execute() leaves run(): nothing is returned, no answer/final is emitted,
\* and no tool_call/finish, tool-role message or ToolCallRecord exists for
\* that call or for the later calls of the turn.
C20_UnregisteredToolAborts ==
    /\ \A k \in 1..Len(ToolMessages) : ToolMessages[k].name \in Registered
    /\ \A k \in 1..Len(tool_calls) : tool_calls[k].name \in Registered
    /\ \A k \in FinishEvents : events[k].name \in Registered
    /\ \A n \in UnregisteredAt :
          /\ pc \in {"dispatch", "done"}
          /\ cursor <= n
          /\ Len(ToolIdsAfter(LastAssistantPosition))
                 = Len(NamedStateIds(SubSeq(sorted_tool_states, 1, cursor - 1)))
          /\ Len(tool_calls) = Len(ToolMessages)
          /\ Cardinality(FinishEvents) = Len(ToolMessages)
          /\ pc = "done" =>
                 /\ raised = "ValueError"
                 /\ returned = <<>>
                 /\ FinalEvents = {}

\* the run has failed at a call of an unregistered tool that a call of echo
\* follows in the same assistant message
C20_Witness ==
    /\ pc = "done"
    /\ raised = "ValueError"
    /\ Len(sorted_tool_states) = 2
    /\ cursor = 1
    /\ sorted_tool_states[1].name = "no_such_tool"
    /\ sorted_tool_states[2].name = "echo"
    /\ Len(Last(messages).tool_calls) = 2
    /\ tool_calls = <<>>

(* --------------------------- the event handler -------------------------- *)

\* the events a step emits
NewEvents == SubSeq(events', Len(events) + 1, Len(events'))

\* C14: the event handler cannot alter a run.  At every step of a run with
\* no handler, with one that returns or with one that raises, the emit()
\* calls of the step are the same and return the same with no handler and
\* with a handler that raises on any set of event types: each event is
\* offered, in order, and no exception leaves emit(), so that no run ends
\* with the handler's error.
C14_HandlerCannotAlterRun ==
    /\ [][\A handler \in Handlers :
             /\ EmitAll(handler, NewEvents).offered = NewEvents
             /\ EmitAll(handler, NewEvents).raises = None
             /\ EmitAll(NoHandler, NewEvents) = EmitAll(handler, NewEvents)]_vars
    /\ [](raised # "HandlerError")

\* a run with a handler that raises on every event has returned its result
\* after a tool call, a reflection that asked for more and a final answer
C14_Witness ==
    /\ Succeeded
    /\ event_handler = Handler(EventTypes)
    /\ StartEvents # {}
    /\ FinishEvents # {}
    /\ ReflectionEvents # {}
    /\ FinalEvents = {Len(events)}

(* --------------------------- argument recovery -------------------------- *)

ArgumentsParsed == parsed_arguments.type # "pending"

\* C15: for every streamed argument text, argument recovery returns a
\* mapping: the recovered JSON object, or the empty object.
C15_RecoveryReturnsMapping ==
    ArgumentsParsed => parsed_arguments.type = "object"

\* the closing brackets a truncated text may be missing
ClosingSuffixes ==
    UNION {[1..count -> {"}", "]"}] : count \in 1..MaxArgTokens}

\* C16: the recovery of a JSON object text that misses only its closing
\* brackets, in whatever nesting, returns the object of the text with the
\* closing brackets appended.
C16_MissingClosersRecovered ==
    ArgumentsParsed =>
        \A closers \in ClosingSuffixes :
            LET whole == JsonLoads(raw \o closers)
            IN  whole.ok /\ whole.type = "object" =>
                    parsed_arguments = Typed("object", whole.value)

\* the texts of which text is the copy with a comma after the last member,
\* the closing brace present or missing
WithoutTrailingComma(text) ==
    (IF Len(text) >= 1 /\ Last(text) = ","
     THEN {SubSeq(text, 1, Len(text) - 1) \o <<"}">>} ELSE {})
    \cup (IF Len(text) >= 2 /\ Last(text) = "}" /\ text[Len(text) - 1] = ","
          THEN {SubSeq(text, 1, Len(text) - 2) \o <<"}">>} ELSE {})

\* C17: the recovery of an object text whose only defect is a comma after
\* its last member, with or without the closing brace, returns the object
\* of the text without that comma.
C17_TrailingCommaStripped ==
    ArgumentsParsed =>
        \A repaired \in WithoutTrailingComma(raw) :
            LET whole == JsonLoads(repaired)
            IN  whole.ok /\ whole.type = "object" =>
                    parsed_arguments = Typed("object", whole.value)

(* ------------------------- the reflection verdict ------------------------ *)

Evaluated == verdict # Pending

\* some parsing stage yields a JSON object
YieldsObject ==
    payload # <<>> /\ ParseReflectionPayload(payload[1]).type = "object"

\* C18: evaluate() fails open for every judgment text: it never raises, and
\* whenever no parsing stage yields a JSON object it returns a record with
\* requires_more_context false and the fixed diagnostic reason.
C18_EvaluateFailsOpen ==
    Evaluated =>
        /\ verdict.raises = None
        /\ ~YieldsObject =>
              /\ ~verdict.record.requires_more_context
              /\ verdict.record.reason = "Could not parse reflection JSON."

\* the objects of the judgment texts that hold a valid JSON object inside a
\* fenced block with prose before or after the fence, the prose before it
\* taken from the set before_fence
FencedObjects(text, before_fence) ==
    {JsonLoads(body).value :
        body \in {candidate \in JudgmentBodies :
                     /\ JsonLoads(candidate).ok
                     /\ JsonLoads(candidate).type = "object"
                     /\ \E before \in before_fence, after \in Proses,
                           opening \in FenceOpenings \ {<<>>} :
                           /\ before # <<>> \/ after # <<>>
                           /\ text = before \o opening \o candidate
                                     \o <<Fence>> \o after}}

\* C19 as stated: for a judgment text that holds one valid JSON object inside
\* a fenced block, with prose before and/or after the fence, the parsing
\* pipeline returns exactly that object.
C19_FencedObjectRecovered ==
    Evaluated /\ payload # <<>> =>
        \A object \in FencedObjects(payload[1], Proses) :
            /\ ParseReflectionPayload(payload[1]) = Typed("object", object)
            /\ verdict = Returns(RecordOf(object))

\* the prose that holds no opening brace
BraceFreeProses == {prose \in Proses : Count(prose, "{") = 0}

\* C19 amended: the parsing pipeline returns exactly that object provided
\* the prose before the fence holds no opening brace (and, as in every text
\* here, no string of the object holds a brace).
C19_FencedObjectAfterBraceFreeProse ==
    Evaluated /\ payload # <<>> =>
        \A object \in FencedObjects(payload[1], BraceFreeProses) :
            /\ ParseReflectionPayload(payload[1]) = Typed("object", object)
            /\ verdict = Returns(RecordOf(object))

\* the judgment was an object asking for more inside a block fenced with the
\* json tag, with a word before the fence and a stray brace after it
C19_Witness ==
    /\ Evaluated
    /\ payload = <<<<"Sure:", Fence, "json",
                     "{", "\"requires_more_context\":", "true", "}",
                     Fence, "{">>>>
    /\ verdict.raises = None
    /\ verdict.record.requires_more_context

(* ------------------------ the kinds of tool errors ----------------------- *)

\* the run has failed in its dispatch loop, at the call under the cursor
DispatchFailed ==
    /\ pc = "done"
    /\ raised \notin {None, "GatewayError"}
    /\ cursor \in 1..Len(sorted_tool_states)

\* the error kind execute() raises for a name that is not registered
NotFoundKind ==
    RegistryExecute("no_such_tool", Typed("object", EmptyDict), <<>>).raises

\* C21: the error of a registered tool whose execution fails is of another
\* kind than the error of dispatching a name that is not registered, so the
\* kind alone tells "execution failed" from "not found".
C21_NotFoundIsDistinctKind ==
    (DispatchFailed /\ sorted_tool_states[cursor].name \in Registered)
        => raised # NotFoundKind

(* ------------------- two runs on the one shared agent -------------------- *)

\* C22: while two runs with different models are under way on the shared
\* agent, every completion request and every reflection call of a run uses
\* the model the run resolved at its start.
C22_RunsKeepTheirModel ==
    \A run \in DOMAIN runs :
        \A k \in 1..Len(runs[run].llm_calls) :
            runs[run].llm_calls[k].model = runs[run].active_model

(* ------------------------ the cancelled event stream --------------------- *)

\* C23: once the consumer of the event stream has left, the run issues no
\* further completion request, reflection call or tool execution and emits
\* no further event.
C23_CancelledRunStops ==
    consumer = "cancelled" => Progress = cancelled_at[1]

(* --------------------------- history compaction -------------------------- *)

SummaryHeading == Word("Conversation summary:", 3)

RecentHeading == Word("Recent exchanges:", 3)

\* the block of the recent exchanges alone, as the context has it
RecentBlockAlone(recent_lines) ==
    <<RecentHeading, Newline>> \o Join(<<Newline>>, recent_lines) \o <<Newline>>

HasWord(text, word) == \E i \in 1..Len(text) : text[i] = word

\* C24: the context has a "Conversation summary:" block only if at least 6
\* prior messages are left after normalization; with fewer the summarizer
\* is never called and the context is the "Recent exchanges:" block alone,
\* or empty when no message is left.
C24_SummaryOnlyFromSixMessages ==
    \A k \in 1..Len(contexts) :
        LET built == contexts[k]
        IN  /\ HasWord(built.context, SummaryHeading)
                => Len(built.normalized) >= 6
            /\ Len(built.normalized) < 6 =>
                   /\ built.calls = <<>>
                   /\ built.context =
                          IF built.normalized = <<>> THEN <<>>
                          ELSE RecentBlockAlone(built.recent_lines)

\* a history of six messages of which five are left after normalization has
\* been compacted without the summarizer
C24_Witness ==
    /\ Len(given_history) = 6
    /\ contexts # <<>>
    /\ Len(contexts[1].normalized) = 5
    /\ contexts[1].calls = <<>>
    /\ contexts[1].recent_lines # <<>>
    /\ contexts[1].context = RecentBlockAlone(contexts[1].recent_lines)

\* the lines of the newest count entries, oldest first
NewestLines(normalized, count) ==
    [k \in 1..count |-> Line(normalized[Len(normalized) - count + k])]

\* the tokens of lines counted line by line, as the loop counts them
LineTokens(lines) == CountTokens(Join(<<>>, lines))

\* C25: the recent window of a non-empty normalized history is the lines of
\* its newest messages in chronological order, at least the newest one even
\* when that exceeds the budget alone; a window of several lines is within
\* the budget, and the next older message is left out only when its line
\* would exceed the budget.
C25_RecentWindowIsMaximalSuffix ==
    \A k \in 1..Len(contexts) :
        LET built == contexts[k]
            count == Len(built.recent_lines)
            entries == Len(built.normalized)
        IN  built.normalized # <<>> =>
                /\ count \in 1..entries
                /\ built.recent_lines = NewestLines(built.normalized, count)
                /\ count > 1 =>
                       LineTokens(built.recent_lines) <= RECENT_CONTEXT_TOKEN_BUDGET
                /\ count < entries =>
                       LineTokens(built.recent_lines)
                           + CountTokens(Line(built.normalized[entries - count]))
                       > RECENT_CONTEXT_TOKEN_BUDGET

\* the newest message alone exceeds the budget and is the whole window of a
\* history of several messages
C25_Witness ==
    /\ contexts # <<>>
    /\ Len(contexts[1].normalized) >= 3
    /\ Len(contexts[1].recent_lines) = 1
    /\ LineTokens(contexts[1].recent_lines) > RECENT_CONTEXT_TOKEN_BUDGET

SummaryCallFailed(built) == summarizing = "fails" /\ built.calls # <<>>

\* C27: a gateway failure is fatal wherever the run meets it; on a
\* history-summary call it leaves _build_history_context, and with it run(),
\* as the error, and the failed request is not issued again.
C27_GatewayFailureIsFatal ==
    \A k \in 1..Len(contexts) :
        SummaryCallFailed(contexts[k]) =>
            /\ contexts[k].raises = "GatewayError"
            /\ Len(contexts[k].calls) = 1

(* ---------------------------- output previews ---------------------------- *)

\* the first count characters of a text
FirstCharacters(text, count) == [k \in 1..count |-> text[k]]

\* what the tools of these runs can return: what the search returned, or
\* the echo of no message
ToolContents == SearchOutputs \cup {EchoToolRun(EmptyDict).content}

\* C28: the output_preview of every ToolCallRecord is the first
\* min(500, length) characters of the tool's output, the tool-role message
\* of the call has the whole output, and the reflection request holds the
\* previews and nothing else of the outputs.
C28_PreviewTruncatedMessageWhole ==
    /\ Len(tool_calls) = Len(ToolMessages)
    /\ \A k \in 1..Len(tool_calls) :
          LET output == ToolMessages[k].content
          IN  /\ output \in ToolContents
              /\ \E j \in FinishEvents : events[j].output = output
              /\ tool_calls[k].output_preview
                     = FirstCharacters(output, Min(500, Len(output)))
    /\ \A k \in 1..Len(reflection_input) :
          LET tool_history == reflection_input[k].tool_history
          IN  /\ Len(tool_history) <= Len(tool_calls)
              /\ \A n \in 1..Len(tool_history) :
                    /\ DOMAIN tool_history[n] = {"name", "arguments", "output_preview"}
                    /\ tool_history[n].output_preview = tool_calls[n].output_preview
                    /\ Len(tool_history[n].output_preview) <= 500

\* a search has returned 501 characters, and the reflection has been asked
\* about the answer that followed
C28_Witness ==
    /\ tool_calls # <<>>
    /\ ToolMessages[1].content = LongOutput
    /\ Len(tool_calls[1].output_preview) = 500
    /\ reflection_input # <<>>
    /\ Len(reflection_input[1].tool_history) = 1

(* ---------------------- the fragments of one turn ------------------------ *)

\* the positions of the consumed fragments for the index
FragmentsAt(index) == {k \in 1..Len(fragments) : fragments[k].index = index}

\* the argument text of the first count fragments that is for the index
RECURSIVE ArgumentsUpTo(_, _)
ArgumentsUpTo(index, count) ==
    IF count = 0 THEN <<>>
    ELSE ArgumentsUpTo(index, count - 1)
         \o (IF fragments[count].index = index THEN fragments[count].arguments
             ELSE <<>>)

ConcatenatedArguments(index) == ArgumentsUpTo(index, Len(fragments))

Greatest(positions) == CHOOSE k \in positions : \A j \in positions : j <= k

\* the last name a fragment for the index supplied, None if none did
LastName(index) ==
    LET supplying == {k \in FragmentsAt(index) : fragments[k].name # None}
    IN  IF supplying = {} THEN None ELSE fragments[Greatest(supplying)].name

\* the last id a fragment for the index supplied, None if none did
LastId(index) ==
    LET supplying == {k \in FragmentsAt(index) : fragments[k].id # None}
    IN  IF supplying = {} THEN None ELSE fragments[Greatest(supplying)].id

\* the turn's assistant message with its tool calls has been built
Finalized ==
    /\ fragments # <<>>
    /\ AssistantPositions # {}
    /\ HasToolCalls(messages[LastAssistantPosition])

\* the finalized tool calls of the turn, sorted by index
FinalizedCalls == messages[LastAssistantPosition].tool_calls

\* C29: the finalized tool call at every index of the turn's fragments has
\* the concatenation of the index's argument fragments as its arguments, the
\* last name supplied for the index as its name, and as its id the last id
\* supplied for the index or tool_call_<index> when none was.
C29_FinalizedCallFoldsFragments ==
    Finalized =>
        /\ {sorted_tool_states[n].index : n \in 1..Len(sorted_tool_states)}
               = {fragments[k].index : k \in 1..Len(fragments)}
        /\ Len(FinalizedCalls) = Len(sorted_tool_states)
        /\ \A n \in 1..Len(FinalizedCalls) :
              LET index == sorted_tool_states[n].index
                  call == FinalizedCalls[n]
              IN  /\ call.function.arguments = ConcatenatedArguments(index)
                  /\ LastName(index) # None => call.function.name = LastName(index)
                  /\ call.id = IF LastId(index) # None THEN LastId(index)
                               ELSE SyntheticId(index)

\* C29 amended: as C29, but the arguments of a finalized call whose index
\* got no argument text are the text {}, and the name of one whose index got
\* no name is empty.
C29_FinalizedCallFoldsFragmentsOrDefault ==
    Finalized =>
        /\ {sorted_tool_states[n].index : n \in 1..Len(sorted_tool_states)}
               = {fragments[k].index : k \in 1..Len(fragments)}
        /\ Len(FinalizedCalls) = Len(sorted_tool_states)
        /\ \A n \in 1..Len(FinalizedCalls) :
              LET index == sorted_tool_states[n].index
                  call == FinalizedCalls[n]
              IN  /\ call.function.arguments =
                         IF ConcatenatedArguments(index) = <<>> THEN <<"{}">>
                         ELSE ConcatenatedArguments(index)
                  /\ call.function.name =
                         IF LastName(index) = None THEN "" ELSE LastName(index)
                  /\ call.id = IF LastId(index) # None THEN LastId(index)
                               ELSE SyntheticId(index)

\* the call at index 0 is finalized from three fragments: two names, two ids
\* and two pieces of argument text
C29_Witness ==
    /\ Finalized
    /\ FragmentsAt(0) = {1, 2, 3}
    /\ fragments[1].name = "echo"
    /\ fragments[2].id = "call_x"
    /\ LastName(0) = "current_time_utc"
    /\ LastId(0) = "call_y"
    /\ Len(ConcatenatedArguments(0)) = 2
    /\ FinalizedCalls[1].function.arguments = ConcatenatedArguments(0)

IsStart(event) == event.type = "tool_call" /\ event.status = "start"

\* the indices that a consumed fragment has given a name
NamedIndices ==
    {fragments[k].index : k \in {j \in 1..Len(fragments) : fragments[j].name # None}}

\* the tool_call/start events the step has emitted
NewStarts == SelectSeq(NewEvents, IsStart)

\* the id the state of the index has once the fragment is folded in
IdAfter(fragment) ==
    IF fragment.id # None THEN fragment.id
    ELSE IF LastId(fragment.index) # None THEN LastId(fragment.index)
    ELSE SyntheticId(fragment.index)

\* the step consumes a fragment that gives its index a name for the first
\* time and emits the one start event of the index, or it emits none
StartsWithFirstName ==
    IF fragments' # fragments
    THEN LET fragment == Last(fragments')
         IN  NewStarts =
                 IF fragment.name # None /\ LastName(fragment.index) = None
                 THEN <<ToolCallStartEvent(IdAfter(fragment), fragment.name, EmptyDict)>>
                 ELSE <<>>
    ELSE NewStarts = <<>>

\* C30: in a turn one tool_call/start event is emitted for every index that
\* gets a name, by the step that consumes the first fragment naming the
\* index and before any tool of the turn is executed; a later fragment for
\* the index emits none, whatever it supplies, and an index without a name
\* has none.
C30_OneStartPerNamedIndex ==
    /\ [](/\ Cardinality(StartEvents) = Cardinality(NamedIndices)
          /\ \A start \in StartEvents : \A finish \in FinishEvents : start < finish)
    /\ [][StartsWithFirstName]_vars

\* index 0 has been named twice and index 1 not at all; the one start event
\* precedes the execution of the call at index 0
C30_Witness ==
    /\ Len(fragments) = 3
    /\ Cardinality({k \in FragmentsAt(0) : fragments[k].name # None}) = 2
    /\ Cardinality(FragmentsAt(1)) = 1
    /\ NamedIndices = {0}
    /\ Cardinality(StartEvents) = 1
    /\ Cardinality(FinishEvents) = 1

(* ----------------------- the chunks of the streams ---------------------- *)

HasStopMarker(chunk) == chunk.finish_reason \in {"stop", "tool_calls"}

\* C31: aggregation of a turn's stream stops at the first chunk whose finish
\* marker is stop or tool_calls: no chunk of a turn is consumed after a chunk
\* of that turn with such a marker, and the aggregator is not reading the
\* stream of a turn of which it has consumed such a chunk.
C31_AggregationStopsAtMarker ==
    /\ \A k \in 1..Len(consumed), j \in 1..Len(consumed) :
           k < j /\ consumed[k].turn = consumed[j].turn
               => ~HasStopMarker(consumed[k].chunk)
    /\ pc = "stream" =>
           \A k \in 1..Len(consumed) :
               consumed[k].turn = turn => ~HasStopMarker(consumed[k].chunk)

\* the texts of the parts that are mappings of type "text"
RECURSIVE TextTypedTexts(_)
TextTypedTexts(parts) ==
    IF parts = <<>> THEN <<>>
    ELSE (IF Head(parts).is_dict /\ Head(parts).type = "text"
             /\ Head(parts).text # <<>>
          THEN <<Head(parts).text>> ELSE <<>>)
         \o TextTypedTexts(Tail(parts))

\* the plain text of a content fragment, or the texts of its "text" parts
CountedTexts(content_piece) ==
    CASE content_piece.kind = "none" -> <<>>
      [] content_piece.kind = "str" ->
            IF content_piece.text = <<>> THEN <<>> ELSE <<content_piece.text>>
      [] content_piece.kind = "list" -> TextTypedTexts(content_piece.parts)

\* the counted texts of the content fragments of the chunks consumed from
\* position k on, those of turn t only
RECURSIVE CountedFrom(_, _)
CountedFrom(turns, k) ==
    IF k > Len(consumed) THEN <<>>
    ELSE (IF consumed[k].turn \in turns /\ consumed[k].chunk.has_delta
          THEN CountedTexts(consumed[k].chunk.content) ELSE <<>>)
         \o CountedFrom(turns, k + 1)

\* the position in messages of the assistant message of turn t
AssistantMessageOf(t) ==
    CHOOSE p \in AssistantPositions : Cardinality(Upto(AssistantPositions, p)) = t + 1

StreamEventTexts ==
    LET streamed == SelectSeq(events, LAMBDA event :
                        event.type = "answer" /\ event.status = "stream")
    IN  [k \in 1..Len(streamed) |-> streamed[k].text]

\* C32: the content of every turn's assistant message is the concatenation,
\* in arrival order, of the plain-text content fragments and of the texts of
\* the "text"-typed parts of the list-valued fragments of that turn, and the
\* answer/stream events carry these texts and no others.
C32_OnlyTextPartsCounted ==
    /\ \A t \in 0..(Cardinality(AssistantPositions) - 1) :
           messages[AssistantMessageOf(t)].content = Concat(CountedFrom({t}, 1))
    /\ StreamEventTexts = CountedFrom(0..turn, 1)

(* ------------------------- transcript chunking -------------------------- *)

\* the formatted lines of the normalized messages
LinesOf(normalized) == [k \in 1..Len(normalized) |-> Line(normalized[k])]

\* the tokens of the lines from position s to position e
TokensBetween(lines, s, e) == CountTokens(Join(<<>>, SubSeq(lines, s, e)))

\* the chunks a summary loop that went through has been given
ChunksGiven(built) == [k \in 1..Len(built.calls) |-> built.calls[k].new_chunk]

\* the lines are cut into the chunks after the positions of cuts: every chunk
\* is the lines of its stretch joined by newlines, a chunk of several lines is
\* within the budget, and at every cut the next line would have exceeded it
PartitionedAt(lines, cuts, chunks) ==
    LET starts == SortedIndices({1} \cup {c + 1 : c \in cuts})
        EndOf(g) == IF g = Len(starts) THEN Len(lines) ELSE starts[g + 1] - 1
    IN  /\ Len(chunks) = Len(starts)
        /\ \A g \in 1..Len(starts) :
               /\ starts[g] <= EndOf(g)
               /\ chunks[g] = Join(<<Newline>>, SubSeq(lines, starts[g], EndOf(g)))
               /\ EndOf(g) > starts[g] =>
                      TokensBetween(lines, starts[g], EndOf(g))
                          <= SUMMARY_CHUNK_TOKEN_LIMIT
               /\ g < Len(starts) =>
                      TokensBetween(lines, starts[g], EndOf(g) + 1)
                          > SUMMARY_CHUNK_TOKEN_LIMIT

\* the last call of conversation_summary_update that was made has failed at
\* the gateway
UpdateFailed(built) ==
    /\ built.calls # <<>>
    /\ ConversationSummaryUpdate(summarizing, Last(built.calls).existing_summary,
                                 Last(built.calls).new_chunk,
                                 SUMMARY_TOKEN_BUDGET).raises # None

\* the summary loop of a call went through: the gateway failed none of its
\* requests
SummarizedThrough(built) ==
    /\ SummaryWanted(built.normalized)
    /\ ~UpdateFailed(built)

\* C33: the transcript chunks partition the formatted lines of the
\* normalized messages in order, no chunk empty and no line split, a chunk of
\* several lines within the per-chunk budget and a chunk closed only when the
\* next line would exceed it; and the summary is the left-to-right fold of
\* the summary update over these chunks from the empty summary, one call per
\* chunk.
C33_ChunksPartitionAndFold ==
    \A n \in 1..Len(contexts) :
        LET built == contexts[n]
            lines == LinesOf(built.normalized)
            chunks == ChunksGiven(built)
            Updated(k) ==
                ConversationSummaryUpdate(summarizing,
                                          built.calls[k].existing_summary,
                                          built.calls[k].new_chunk,
                                          SUMMARY_TOKEN_BUDGET).summary
        IN  SummarizedThrough(built) =>
                /\ \E cuts \in SUBSET (1..(Len(lines) - 1)) :
                       PartitionedAt(lines, cuts, chunks)
                /\ built.calls[1].existing_summary = <<>>
                /\ \A k \in 2..Len(chunks) :
                       built.calls[k].existing_summary = Updated(k - 1)
                /\ built.summary = Updated(Len(chunks))

\* a summary loop that went through three chunks: one filled to the token by
\* two lines, one of a line that alone exceeds the budget, and one more
C33_Witness ==
    \E n \in 1..Len(contexts) :
        LET built == contexts[n]
            lines == LinesOf(built.normalized)
        IN  /\ SummarizedThrough(built)
            /\ summarizing = "concise"
            /\ Len(built.calls) = 3
            /\ PartitionedAt(lines, {2, 3}, ChunksGiven(built))
            /\ TokensBetween(lines, 1, 2) = SUMMARY_CHUNK_TOKEN_LIMIT
            /\ TokensBetween(lines, 3, 3) > SUMMARY_CHUNK_TOKEN_LIMIT
            /\ built.summary # <<>>

(* -------------------- a gateway that may not stream --------------------- *)

\* C34: when the gateway answers a turn's request with a complete message,
\* the assistant message of that turn has the content and the tool calls of
\* the complete message, as it would have had the message been streamed.
C34_CompleteMessageTaken ==
    \A k \in 1..Len(completions) :
        LET t == completions[k].turn
            message == completions[k].message
        IN  Cardinality(AssistantPositions) > t =>
                LET appended == messages[AssistantMessageOf(t)]
                IN  /\ appended.content = message.content
                    /\ HasToolCalls(appended) = HasToolCalls(message)
                    /\ HasToolCalls(message) =>
                           appended.tool_calls = message.tool_calls

(* --------------------------- the event stream --------------------------- *)

\* C35: the stream relays the events of the run in their order, then one
\* terminal payload, final_response if the run returned and error if it
\* failed, then the done marker as its last item: when the run is over the
\* queue holds the events, that payload and the sentinel, and a generator
\* that has finished has yielded all of them.
C35_StreamEndsWithPayloadAndDone ==
    /\ pc = "done" =>
           /\ Len(Queue) = Len(events) + 2
           /\ SubSeq(Queue, 1, Len(events)) = events
           /\ Queue[Len(events) + 1].type =
                  (IF returned # <<>> THEN "final_response" ELSE "error")
           /\ Queue[Len(events) + 2] = Sentinel
    /\ consumer = "finished" => pc = "done" /\ delivered = Len(Queue)

(* ------------------------- the id of a tool call ------------------------ *)

\* the positions in sorted_tool_states of the calls the dispatch loop has
\* executed
ExecutedCalls ==
    IF pc \in {"stream", "aggregated", "start"} THEN {}
    ELSE {k \in 1..Len(sorted_tool_states) :
              k < cursor /\ sorted_tool_states[k].name # None}

\* C36: for every executed tool call the call_id of its tool_call/start
\* event, the call_id of its tool_call/finish event, the id of the call in
\* the assistant message and the tool_call_id of its tool-role message are
\* one value: the id of the call is carried by a start event, by a finish
\* event, by the assistant message and by a tool-role message, and no start
\* event carries an id that is not that of a call.
C36_OneIdPerCall ==
    LET ids == {sorted_tool_states[k].id : k \in 1..Len(sorted_tool_states)}
    IN  /\ \A k \in ExecutedCalls :
               LET call_id == sorted_tool_states[k].id
               IN  /\ \E e \in StartEvents : events[e].call_id = call_id
                   /\ \E e \in FinishEvents : events[e].call_id = call_id
                   /\ \E p \in AssistantPositions :
                          /\ HasToolCalls(messages[p])
                          /\ messages[p].tool_calls[k].id = call_id
                   /\ \E p \in 1..Len(messages) :
                          /\ messages[p].role = "tool"
                          /\ messages[p].tool_call_id = call_id
        /\ ExecutedCalls # {} =>
               \A e \in StartEvents : events[e].call_id \in ids

(* ------------------------- the streamed answer -------------------------- *)

\* the number of events emitted when the last chunk of the turns before t,
\* or of the turns up to t, was through
EmittedBefore(t) ==
    Greatest({1} \cup {consumed[k].emitted : k \in {j \in 1..Len(consumed) : consumed[j].turn < t}})

EmittedUpTo(t) ==
    Greatest({1} \cup {consumed[k].emitted : k \in {j \in 1..Len(consumed) : consumed[j].turn <= t}})

\* the texts of the answer/stream events among the events from position k to
\* position last, concatenated
RECURSIVE StreamedText(_, _)
StreamedText(k, last) ==
    IF k > last THEN <<>>
    ELSE (IF events[k].type = "answer" /\ events[k].status = "stream"
          THEN events[k].text ELSE <<>>) \o StreamedText(k + 1, last)

\* what the answer/stream events emitted during turn t say
TurnStreamedText(t) == StreamedText(EmittedBefore(t) + 1, EmittedUpTo(t))

\* C37: in every turn the texts of the answer/stream events emitted during
\* the turn concatenate to the content of the turn's assistant message, no
\* answer/stream event is emitted outside the turns, and the answer of a run
\* that succeeds is what the events of its terminating turn say.
C37_StreamEventsSpellContent ==
    /\ \A t \in 0..(Cardinality(AssistantPositions) - 1) :
           messages[AssistantMessageOf(t)].content = TurnStreamedText(t)
    /\ \A k \in EventsOf("answer", "stream") : k <= EmittedUpTo(turn)
    /\ Succeeded => returned[1].answer = TurnStreamedText(turn)

(* ----------------------- the first and the last event ------------------- *)

RunStartEvents == {k \in 1..Len(events) : events[k].type = "run"}

\* the metadata lists the tool calls and the reflections of the result, in
\* their order
ListsResult(metadata, result) ==
    /\ Len(metadata.tool_calls) = Len(result.tool_calls)
    /\ \A k \in 1..Len(result.tool_calls) :
           /\ metadata.tool_calls[k].name = result.tool_calls[k].name
           /\ metadata.tool_calls[k].arguments = result.tool_calls[k].arguments
           /\ metadata.tool_calls[k].output_preview
                  = result.tool_calls[k].output_preview
    /\ Len(metadata.reflections) = Len(result.reflections)
    /\ \A k \in 1..Len(result.reflections) :
           /\ metadata.reflections[k].requires_more_context
                  = result.reflections[k].requires_more_context
           /\ metadata.reflections[k].reason = result.reflections[k].reason
           /\ metadata.reflections[k].follow_up_instruction
                  = result.reflections[k].follow_up_instruction
           /\ metadata.reflections[k].suggested_query
                  = result.reflections[k].suggested_query

\* C38: a run emits one run/start event, as its first event, and an
\* answer/final event if and only if it returns an AgentResult: then exactly
\* one, as the last event, with the answer of the result as its text and
\* metadata that lists the tool calls and the reflections of the result in
\* their order; a run that fails emits none.
C38_OneStartAndFinalIffResult ==
    /\ pc # "start" => RunStartEvents = {1} /\ events[1] = RunStartEvent
    /\ pc = "start" => events = <<>>
    /\ (FinalEvents # {}) <=> (returned # <<>>)
    /\ returned # <<>> =>
           /\ FinalEvents = {Len(events)}
           /\ Last(events).text = returned[1].answer
           /\ ListsResult(Last(events).metadata, returned[1])
    /\ raised # None => FinalEvents = {} /\ returned = <<>>

\* a run that returned a result with a tool call and a reflection, and a
\* final event after the events of both
C38_Witness ==
    /\ Succeeded
    /\ Len(returned[1].tool_calls) >= 1
    /\ Len(returned[1].reflections) >= 1
    /\ FinalEvents = {Len(events)}
    /\ FinishEvents # {}
    /\ returned[1].answer # <<>>

(* --------------------- the recent block and the summary ------------------ *)

\* The recent window as the prior messages alone determine it: the lines of
\* the newest messages, as many as the budget takes and at least one.
WindowOf(normalized) ==
    LET entries == Len(normalized)
        count == CHOOSE c \in 1..entries :
                     /\ c > 1 => LineTokens(NewestLines(normalized, c))
                                     <= RECENT_CONTEXT_TOKEN_BUDGET
                     /\ c < entries =>
                            LineTokens(NewestLines(normalized, c + 1))
                                > RECENT_CONTEXT_TOKEN_BUDGET
    IN  NewestLines(normalized, count)

\* the context ends with this text
EndsWith(text, ending) ==
    /\ Len(text) >= Len(ending)
    /\ SubSeq(text, Len(text) - Len(ending) + 1, Len(text)) = ending

\* C39: the recent-exchanges block of the context is what the prior messages
\* alone determine, whether the summary was skipped, computed or failed; a
\* failed summary-update call leaves no summary in the context, not even of
\* the chunks before it, leaves the recent block in place and does not end
\* the run with an error.
C39_RecentBlockApartFromSummary ==
    \A n \in 1..Len(contexts) :
        LET built == contexts[n]
        IN  built.normalized # <<>> =>
                /\ built.recent_lines = WindowOf(built.normalized)
                /\ EndsWith(built.context, RecentBlockAlone(WindowOf(built.normalized)))
                /\ UpdateFailed(built) =>
                       /\ built.raises = None
                       /\ built.summary = <<>>
                       /\ ~HasWord(built.context, SummaryHeading)
                       /\ built.context = RecentBlockAlone(WindowOf(built.normalized))

\* the second summary-update call of a compaction failed after the first
\* had made a summary, and the context is the recent block alone, which
\* leaves older messages out
C39_Witness ==
    \E n \in 1..Len(contexts) :
        LET built == contexts[n]
        IN  /\ summarizing = "fails_later"
            /\ Len(built.calls) = 2
            /\ built.calls[2].existing_summary # <<>>
            /\ UpdateFailed(built)
            /\ built.context = RecentBlockAlone(built.recent_lines)
            /\ Len(built.recent_lines) \in 2..(Len(built.normalized) - 1)

(* ----------------------- the model of every call ------------------------ *)

\* the models the run has called the gateway with
ModelsCalled(run) ==
    {runs[run].llm_calls[k].model : k \in 1..Len(runs[run].llm_calls)}

\* C40: every gateway call made for a run, the completion request of each
\* turn, the reflection call and every history-summary update call, is made
\* with the active model the run resolved at its start.
C40_EveryCallWithActiveModel ==
    \A run \in DOMAIN runs :
        runs[run].pc \notin {"start"} =>
            ModelsCalled(run) \subseteq {runs[run].active_model}

====
